---------------------------- MODULE Spec2Model ----------------------------
(***************************************************************************)
(* A model of shellvetica: the style resolver StyleNode::from_ansi_node    *)
(* (src/src/styles.rs), the run optimizer Shellvetica::optimize_ast        *)
(* (src/src/shellvetica.rs) and the sequence lexer                         *)
(* TerminalOutputParser::parse_to_nodes (src/src/nodes.rs).                *)
(*                                                                         *)
(* Every stage is a pure function of its argument.  Each one is modelled   *)
(* as a small machine whose argument is drawn in the initial state and     *)
(* whose actions are the iterations of the function's loop.                *)
(***************************************************************************)
EXTENDS Integers, Sequences, FiniteSets, TLC

VARIABLES
    \* ---- StyleNode::from_ansi_node, called once per Csi node ----
    sgrNodes,       \* the params of the SGR Csi nodes handed to the resolver, in order
    ni,             \* index of the node whose params are being folded (1-based)
    gi,             \* number of param groups of that node folded so far
    result,         \* `result` of the running call of from_ansi_node
    styles,         \* the StyleNode returned for each node so far
    pcS,            \* "idle" | "call" | "fold" | "done"
    \* ---- Shellvetica::optimize_ast ----
    ast,            \* the argument of optimize_ast
    i,              \* the main index (0-based, as in the source)
    current_color,  \* Option<Color>: NoneColor or a colour name
    opt_result,     \* `result` of optimize_ast
    pass,           \* 1: first application, 2: application to its own output
    first_output,   \* what the first application returned
    pcO,            \* "idle" | "scan" | "returned"
    \* ---- TerminalOutputParser::parse_to_nodes ----
    input,          \* the argument: a byte buffer
    input_to_parse, \* the buffer handed to the parsing engine
    pos,            \* number of bytes of input_to_parse the engine has consumed
    vte,            \* the state of the parsing engine (vte::Parser)
    nodes,          \* builder.nodes
    current_text,   \* builder.current_text, a sequence of chars (code points)
    pcL,            \* "idle" | "start" | "advance" | "done"
    \* ---- Shellvetica::convert and Shellvetica::export ----
    conv_input,     \* the argument of convert: a sequence of chars
    cpos,           \* `chars` of str_2_ast: the number of chars consumed
    conv_ast,       \* `result` of str_2_ast
    html,           \* the String returned by export
    pcC,            \* "idle" | "str_2_ast" | "optimize_ast" | "export" | "done"
    \* ---- StyleNode::to_html ----
    self_node,      \* `self`: the StyleNode to_html is called on, which it may change
    called_on,      \* the value of `self` when the last call of to_html began
    tag_html,       \* the String the last call returned
    html_calls,     \* the number of calls of to_html made on self_node
    \* ---- main.rs: optimize_ast ----
    main_ast,       \* `ast`, the argument, overwritten with the result at the end
    main_i,         \* `i`, the main index (0-based)
    main_color,     \* `current_color`: NoneColor or a colour name
    main_result,    \* `result`
    pcM             \* "idle" | "scan" | "done"

sgrVars == <<sgrNodes, ni, gi, result, styles, pcS>>
optVars == <<ast, i, current_color, opt_result, pass, first_output, pcO>>
lexVars == <<input, input_to_parse, pos, vte, nodes, current_text, pcL>>
convVars == <<conv_input, cpos, conv_ast, html, pcC>>
htmlVars == <<self_node, called_on, tag_html, html_calls>>
mainVars == <<main_ast, main_i, main_color, main_result, pcM>>
vars == <<sgrVars, optVars, lexVars, convVars, htmlVars, mainVars>>

(***************************************************************************)
(* Bounds of the model.                                                    *)
(***************************************************************************)
MaxGroups == 3
MaxBoldGroups == 4
MaxNodes == 2
MaxTokens == 5
MaxPieces == 3
MaxRun == 2
MaxValues == 3
MaxOscParams == 2
MaxCalls == 2

Min(a, b) == IF a < b THEN a ELSE b

(***************************************************************************)
(* styles.rs: colours and the style record.                                *)
(***************************************************************************)
\* Option<Color>::None
NoColor == [kind |-> "None", a |-> 0, b |-> 0, c |-> 0]
Standard(n) == [kind |-> "Standard", a |-> n, b |-> 0, c |-> 0]
Bright(n) == [kind |-> "Bright", a |-> n, b |-> 0, c |-> 0]
Palette(p) == [kind |-> "Palette", a |-> p, b |-> 0, c |-> 0]
Rgb(r, g, b) == [kind |-> "Rgb", a |-> r, b |-> g, c |-> b]

\* `x as u8` of a u16
AsU8(x) == x % 256

\* EightBitColor::from_u8: the colour is kept as its index 0..7
EightBitColor_from_u8(value) == IF value \in 0..7 THEN value ELSE 0

\* Font::from_u8: 0 stands for None, 1..9 for Font::One..Font::Nine
Font_from_u8(value) == IF value \in 1..9 THEN value ELSE 0

\* StyleNode::default()
Default ==
    [bold |-> FALSE, dim |-> FALSE, italic |-> FALSE,
     underline |-> "None", underline_color |-> NoColor,
     subscript |-> FALSE, superscript |-> FALSE,
     blink |-> FALSE, reverse |-> FALSE, hidden |-> FALSE,
     strikethrough |-> FALSE, rapid_blink |-> FALSE,
     font |-> 0, fraktur |-> FALSE, proportional_spacing |-> FALSE,
     framed |-> FALSE, encircled |-> FALSE, overlined |-> FALSE,
     foreground |-> NoColor, background |-> NoColor,
     fg_bright_from_bold |-> FALSE, bg_bright_from_bold |-> FALSE]

\* the sub-style of [4, style, ..]
UnderlineOf(style) ==
    CASE style = 0 -> "None"
      [] style = 1 -> "Single"
      [] style = 2 -> "Double"
      [] style = 3 -> "Curly"
      [] style = 4 -> "Dotted"
      [] style = 5 -> "Dashed"
      [] OTHER -> "Single"

\* a bold that promotes a palette colour as well
BoldOnPromotesPalette(s) ==
    LET promoted(color) == color.kind \in {"Standard", "Palette"}
        s1 == [s EXCEPT !.bold = TRUE]
        s2 == IF promoted(s1.foreground)
              THEN [s1 EXCEPT !.foreground = Bright(EightBitColor_from_u8(s1.foreground.a)),
                              !.fg_bright_from_bold = TRUE]
              ELSE s1
    IN  IF promoted(s2.background)
        THEN [s2 EXCEPT !.background = Bright(EightBitColor_from_u8(s2.background.a)),
                        !.bg_bright_from_bold = TRUE]
        ELSE s2

\* [1, ..]: bold on, a Standard colour is promoted to Bright
BoldOn(s) ==
    LET s1 == [s EXCEPT !.bold = TRUE]
        s2 == IF s1.foreground.kind = "Standard"
              THEN [s1 EXCEPT !.foreground = Bright(s1.foreground.a),
                              !.fg_bright_from_bold = TRUE]
              ELSE s1
    IN  IF s2.background.kind = "Standard"
        THEN [s2 EXCEPT !.background = Bright(s2.background.a),
                        !.bg_bright_from_bold = TRUE]
        ELSE s2

\* BoldOff without the downgrade of a promoted colour
BoldOffKeepsBright(s) == [s EXCEPT !.bold = FALSE, !.dim = FALSE]

\* [21 | 22, ..]: bold and dim off, a bold-promoted Bright colour is downgraded
BoldOff(s) ==
    LET s1 == [s EXCEPT !.bold = FALSE, !.dim = FALSE]
        s2 == IF s1.fg_bright_from_bold /\ s1.foreground.kind = "Bright"
              THEN [s1 EXCEPT !.foreground = Standard(s1.foreground.a),
                              !.fg_bright_from_bold = FALSE]
              ELSE s1
    IN  IF s2.bg_bright_from_bold /\ s2.background.kind = "Bright"
        THEN [s2 EXCEPT !.background = Standard(s2.background.a),
                        !.bg_bright_from_bold = FALSE]
        ELSE s2

\* a standard foreground that does not look at bold
StandardForegroundUnpromoted(s, n) ==
    [s EXCEPT !.foreground = Standard(EightBitColor_from_u8(AsU8(n - 30)))]

\* [n @ 30..=37, ..]
StandardForeground(s, n) ==
    LET color_index == AsU8(n - 30)
    IN  IF s.bold
        THEN [s EXCEPT !.fg_bright_from_bold = TRUE,
                       !.foreground = Bright(EightBitColor_from_u8(color_index))]
        ELSE [s EXCEPT !.foreground = Standard(EightBitColor_from_u8(color_index))]

\* [n @ 40..=47, ..]
StandardBackground(s, n) ==
    LET color_index == AsU8(n - 40)
    IN  IF s.bold
        THEN [s EXCEPT !.bg_bright_from_bold = TRUE,
                       !.background = Bright(EightBitColor_from_u8(color_index))]
        ELSE [s EXCEPT !.background = Standard(EightBitColor_from_u8(color_index))]

\* [n @ 90..=97, ..]
BrightForeground(s, n) ==
    [s EXCEPT !.foreground = Bright(EightBitColor_from_u8(AsU8(n - 90)))]

\* [n @ 100..=107, ..]
BrightBackground(s, n) ==
    [s EXCEPT !.background = Bright(EightBitColor_from_u8(AsU8(n - 100)))]

\* a reset that forgets to clear the colours
ResetKeepsColors(s) ==
    [Default EXCEPT !.foreground = s.foreground, !.background = s.background]

\* [0, ..]
ResetAll(s) == Default

\* an extended colour whose palette index is clamped to 255, not truncated
ExtendedColorClampsPalette(g) ==
    IF Len(g) >= 3 /\ g[2] = 5
    THEN Palette(AsU8(Min(g[3], 255)))
    ELSE IF Len(g) >= 5 /\ g[2] = 2
         THEN Rgb(AsU8(Min(g[3], 255)), AsU8(Min(g[4], 255)), AsU8(Min(g[5], 255)))
         ELSE NoColor

\* an extended colour whose channels are truncated to 8 bits, not clamped
ExtendedColorWraps(g) ==
    IF Len(g) >= 3 /\ g[2] = 5
    THEN Palette(AsU8(g[3]))
    ELSE IF Len(g) >= 5 /\ g[2] = 2
         THEN Rgb(AsU8(g[3]), AsU8(g[4]), AsU8(g[5]))
         ELSE NoColor

\* the extended colour of [38|48|58, 5, palette, ..] and [.., 2, r, g, b, ..];
\* NoColor when neither slice pattern matches the group
ExtendedColor(g) ==
    IF Len(g) >= 3 /\ g[2] = 5
    THEN Palette(AsU8(g[3]))
    ELSE IF Len(g) >= 5 /\ g[2] = 2
         THEN Rgb(AsU8(Min(g[3], 255)), AsU8(Min(g[4], 255)), AsU8(Min(g[5], 255)))
         ELSE NoColor

\* a subscript that leaves superscript as it is
SubscriptOnKeepsSuperscript(s) == [s EXCEPT !.subscript = TRUE]

\* [73, ..], [74, ..], [75, ..]
SuperscriptOn(s) == [s EXCEPT !.superscript = TRUE, !.subscript = FALSE]
SubscriptOn(s) == [s EXCEPT !.subscript = TRUE, !.superscript = FALSE]
ScriptsOff(s) == [s EXCEPT !.subscript = FALSE, !.superscript = FALSE]

\* the ranges of the colour patterns n @ 30..=37, 40..=47, 90..=97, 100..=107
IsStandardForeground(h) == h \in 30..37
IsStandardBackground(h) == h \in 40..47
IsBrightForeground(h) == h \in 90..97
IsBrightBackgroundOffByOne(h) == h \in 100..108
IsBrightBackground(h) == h \in 100..107

\* one arm of the match in from_ansi_node, chosen by the slice pattern
\* that the param group g matches first
ApplyGroup(s, g) ==
    IF Len(g) = 0 THEN s
    ELSE LET h == g[1] IN
    CASE h = 0 -> ResetAll(s)
      [] h = 1 -> BoldOn(s)
      [] h = 2 -> [s EXCEPT !.dim = TRUE]
      [] h = 3 -> [s EXCEPT !.italic = TRUE]
      [] h = 4 -> IF Len(g) >= 2
                  THEN [s EXCEPT !.underline = UnderlineOf(g[2])]
                  ELSE [s EXCEPT !.underline = "Single"]
      [] h = 5 -> [s EXCEPT !.blink = TRUE]
      [] h = 6 -> [s EXCEPT !.rapid_blink = TRUE]
      [] h = 7 -> [s EXCEPT !.reverse = TRUE]
      [] h = 8 -> [s EXCEPT !.hidden = TRUE]
      [] h = 9 -> [s EXCEPT !.strikethrough = TRUE]
      [] h = 10 -> [s EXCEPT !.font = Font_from_u8(0)]
      [] h \in 11..19 -> [s EXCEPT !.font = Font_from_u8(AsU8(h - 10))]
      [] h = 20 -> [s EXCEPT !.fraktur = TRUE]
      [] h \in {21, 22} -> BoldOff(s)
      [] h = 23 -> [s EXCEPT !.italic = FALSE]
      [] h = 24 -> [s EXCEPT !.underline = "None"]
      [] h = 25 -> [s EXCEPT !.blink = FALSE, !.rapid_blink = FALSE]
      [] h = 26 -> [s EXCEPT !.proportional_spacing = TRUE]
      [] h = 27 -> [s EXCEPT !.reverse = FALSE]
      [] h = 28 -> [s EXCEPT !.hidden = FALSE]
      [] h = 29 -> [s EXCEPT !.strikethrough = FALSE]
      [] IsStandardForeground(h) -> StandardForeground(s, h)
      [] h = 38 -> IF ExtendedColor(g) = NoColor THEN s
                   ELSE [s EXCEPT !.foreground = ExtendedColor(g)]
      [] h = 39 -> [s EXCEPT !.foreground = NoColor]
      [] IsStandardBackground(h) -> StandardBackground(s, h)
      [] h = 48 -> IF ExtendedColor(g) = NoColor THEN s
                   ELSE [s EXCEPT !.background = ExtendedColor(g)]
      [] h = 49 -> [s EXCEPT !.background = NoColor]
      [] h = 50 -> [s EXCEPT !.proportional_spacing = FALSE]
      [] h = 51 -> [s EXCEPT !.framed = TRUE]
      [] h = 52 -> [s EXCEPT !.encircled = TRUE]
      [] h = 53 -> [s EXCEPT !.overlined = TRUE]
      [] h = 54 -> [s EXCEPT !.framed = FALSE, !.encircled = FALSE]
      [] h = 55 -> [s EXCEPT !.overlined = FALSE]
      [] h = 58 -> IF ExtendedColor(g) = NoColor THEN s
                   ELSE [s EXCEPT !.underline_color = ExtendedColor(g)]
      [] h = 59 -> [s EXCEPT !.underline_color = NoColor]
      [] h = 73 -> SuperscriptOn(s)
      [] h = 74 -> SubscriptOn(s)
      [] h = 75 -> ScriptsOff(s)
      [] IsBrightForeground(h) -> BrightForeground(s, h)
      [] IsBrightBackground(h) -> BrightBackground(s, h)
      [] OTHER -> s

\* a call that starts from the style the previous call returned
InitialResultCarried(previous) == previous

\* the state a call of from_ansi_node starts its fold from
InitialResult(previous) == Default

\* from_ansi_node as a function: the fold of ApplyGroup over params
RECURSIVE FoldGroups(_, _)
FoldGroups(s, params) ==
    IF params = <<>> THEN s
    ELSE FoldGroups(ApplyGroup(s, Head(params)), Tail(params))

from_ansi_node(params) == FoldGroups(InitialResult(Default), params)

(***************************************************************************)
(* nodes.rs: the builder TerminalOutputParser and its Perform callbacks.   *)
(* A builder is the pair [nodes, current_text].                            *)
(***************************************************************************)
\* the bytes the model's inputs are made of
BEL == 7
TAB == 9
LF == 10
CR == 13
ESC == 27
\* char::REPLACEMENT_CHARACTER
ReplacementChar == 65533

\* AnsiNode: one record shape for the five variants
TextNode(chars) ==
    [kind |-> "Text", text |-> chars, params |-> <<>>, intermediates |-> <<>>,
     code |-> 0, bell_terminated |-> FALSE]
CsiNode(params, intermediates, code) ==
    [kind |-> "Csi", text |-> <<>>, params |-> params, intermediates |-> intermediates,
     code |-> code, bell_terminated |-> FALSE]
EscNode(intermediates, byte) ==
    [kind |-> "Esc", text |-> <<>>, params |-> <<>>, intermediates |-> intermediates,
     code |-> byte, bell_terminated |-> FALSE]
ControlCharNode(byte) ==
    [kind |-> "ControlChar", text |-> <<>>, params |-> <<>>, intermediates |-> <<>>,
     code |-> byte, bell_terminated |-> FALSE]
OscNode(params, bell_terminated) ==
    [kind |-> "Osc", text |-> <<>>, params |-> params, intermediates |-> <<>>,
     code |-> 0, bell_terminated |-> bell_terminated]

\* a flush that pushes the pending text even when it is empty
flush_text_pushes_empty(b) ==
    [nodes |-> Append(b.nodes, TextNode(b.current_text)), current_text |-> <<>>]

\* a flush that clears the pending text without pushing its node
flush_text_discards(b) == [b EXCEPT !.current_text = <<>>]

\* TerminalOutputParser::flush_text
flush_text(b) ==
    IF b.current_text # <<>>
    THEN [nodes |-> Append(b.nodes, TextNode(b.current_text)), current_text |-> <<>>]
    ELSE b

\* Perform::print
print(b, c) == [b EXCEPT !.current_text = Append(b.current_text, c)]

\* every value of the parameter groups as a group of its own
RECURSIVE FlatParams(_)
FlatParams(params) ==
    IF params = <<>> THEN <<>>
    ELSE [k \in 1..Len(Head(params)) |-> <<Head(params)[k]>>] \o FlatParams(Tail(params))

\* a csi_dispatch that stores the values without their grouping
csi_dispatch_flat(b, params, intermediates, code) ==
    LET f == flush_text(b)
    IN  [f EXCEPT !.nodes = Append(f.nodes, CsiNode(FlatParams(params), intermediates, code))]

\* Perform::csi_dispatch
csi_dispatch(b, params, intermediates, code) ==
    LET f == flush_text(b)
    IN  [f EXCEPT !.nodes = Append(f.nodes, CsiNode(params, intermediates, code))]

\* Perform::esc_dispatch
esc_dispatch(b, intermediates, byte) ==
    LET f == flush_text(b)
    IN  [f EXCEPT !.nodes = Append(f.nodes, EscNode(intermediates, byte))]

\* an execute without the arm of the tab
execute_without_tab(b, byte) ==
    CASE byte = LF -> [b EXCEPT !.current_text = Append(b.current_text, LF)]
      [] byte = CR -> [b EXCEPT !.current_text = Append(b.current_text, CR)]
      [] OTHER -> LET f == flush_text(b)
                  IN  [f EXCEPT !.nodes = Append(f.nodes, ControlCharNode(byte))]

\* Perform::execute
execute(b, byte) ==
    CASE byte = LF -> [b EXCEPT !.current_text = Append(b.current_text, LF)]
      [] byte = CR -> [b EXCEPT !.current_text = Append(b.current_text, CR)]
      [] byte = TAB -> [b EXCEPT !.current_text = Append(b.current_text, TAB)]
      [] OTHER -> LET f == flush_text(b)
                  IN  [f EXCEPT !.nodes = Append(f.nodes, ControlCharNode(byte))]

\* an osc_dispatch that does not store how the string was ended
osc_dispatch_without_bell(b, params, bell_terminated) ==
    LET f == flush_text(b)
    IN  [f EXCEPT !.nodes = Append(f.nodes, OscNode(params, FALSE))]

\* Perform::osc_dispatch
osc_dispatch(b, params, bell_terminated) ==
    LET f == flush_text(b)
    IN  [f EXCEPT !.nodes = Append(f.nodes, OscNode(params, bell_terminated))]

\* a normalize_crlf that steps over one byte only after a CR LF pair
RECURSIVE normalize_crlf_short_step(_, _)
normalize_crlf_short_step(bytes, k) ==
    IF k >= Len(bytes) THEN <<>>
    ELSE IF k + 1 < Len(bytes) /\ bytes[k + 1] = CR /\ bytes[k + 2] = LF
         THEN <<LF>> \o normalize_crlf_short_step(bytes, k + 1)
         ELSE <<bytes[k + 1]>> \o normalize_crlf_short_step(bytes, k + 1)

\* TerminalOutputParser::normalize_crlf, from index k (0-based)
RECURSIVE normalize_crlf_from(_, _)
normalize_crlf_from(bytes, k) ==
    IF k >= Len(bytes) THEN <<>>
    ELSE IF k + 1 < Len(bytes) /\ bytes[k + 1] = CR /\ bytes[k + 2] = LF
         THEN <<LF>> \o normalize_crlf_from(bytes, k + 2)
         ELSE <<bytes[k + 1]>> \o normalize_crlf_from(bytes, k + 1)

\* a normalization that is repeated until no CR LF pair is left
RECURSIVE normalize_crlf_repeated(_)
normalize_crlf_repeated(bytes) ==
    LET once == normalize_crlf_from(bytes, 0)
    IN  IF once = bytes THEN bytes ELSE normalize_crlf_repeated(once)

\* TerminalOutputParser::normalize_crlf
normalize_crlf(bytes) == normalize_crlf_from(bytes, 0)

\* `input.windows(2).any(|w| w == b"\r\n")`
needs_normalization(bytes) ==
    \E k \in 1..(Len(bytes) - 1) : bytes[k] = CR /\ bytes[k + 1] = LF

(***************************************************************************)
(* The parsing engine vte::Parser that parse_to_nodes drives the builder   *)
(* with.  It is a crate outside the repository; it is modelled as the      *)
(* VT500 state machine the specification's lexer section describes, and    *)
(* yields for every step the callbacks it makes.                           *)
(***************************************************************************)
\* capacity of the engine's parameter and intermediate buffers
MAX_PARAMS == 32
MAX_INTERMEDIATES == 2
\* u16::MAX, at which a numeric parameter saturates
U16_MAX == 65535

\* Parser::new()
NewParser ==
    [state |-> "Ground", params |-> <<>>, group |-> <<>>, param |-> 0,
     intermediates |-> <<>>, ignoring |-> FALSE, osc |-> <<>>, osc_param |-> <<>>]

reset_params(v) ==
    [v EXCEPT !.params = <<>>, !.group = <<>>, !.param = 0,
              !.intermediates = <<>>, !.ignoring = FALSE]

\* the number of values held by the parameter buffer
ParamsLen(v) ==
    LET RECURSIVE Total(_)
        Total(ps) == IF ps = <<>> THEN 0 ELSE Len(Head(ps)) + Total(Tail(ps))
    IN  Total(v.params) + Len(v.group)

ParamsFull(v) == ParamsLen(v) = MAX_PARAMS

\* a digit of a parameter
action_paramnext(v, byte) ==
    IF ParamsFull(v) THEN [v EXCEPT !.ignoring = TRUE]
    ELSE [v EXCEPT !.param = Min(Min(v.param * 10, U16_MAX) + (byte - 48), U16_MAX)]

\* ';' closes the parameter group
action_param(v) ==
    IF ParamsFull(v) THEN [v EXCEPT !.ignoring = TRUE]
    ELSE [v EXCEPT !.params = Append(v.params, Append(v.group, v.param)),
                   !.group = <<>>, !.param = 0]

\* ':' adds a sub-value to the open parameter group
action_subparam(v) ==
    IF ParamsFull(v) THEN [v EXCEPT !.ignoring = TRUE]
    ELSE [v EXCEPT !.group = Append(v.group, v.param), !.param = 0]

action_collect(v, byte) ==
    IF Len(v.intermediates) = MAX_INTERMEDIATES THEN [v EXCEPT !.ignoring = TRUE]
    ELSE [v EXCEPT !.intermediates = Append(v.intermediates, byte)]

\* the callbacks of a step
EvPrint(c) == [kind |-> "print", byte |-> c, params |-> <<>>, intermediates |-> <<>>, bell |-> FALSE]
EvExecute(byte) == [kind |-> "execute", byte |-> byte, params |-> <<>>, intermediates |-> <<>>, bell |-> FALSE]
EvCsi(params, intermediates, code) ==
    [kind |-> "csi_dispatch", byte |-> code, params |-> params, intermediates |-> intermediates, bell |-> FALSE]
EvEsc(intermediates, byte) ==
    [kind |-> "esc_dispatch", byte |-> byte, params |-> <<>>, intermediates |-> intermediates, bell |-> FALSE]
EvOsc(params, bell) ==
    [kind |-> "osc_dispatch", byte |-> 0, params |-> params, intermediates |-> <<>>, bell |-> bell]

\* the result of a step: the engine after it, the bytes consumed, the callbacks
Stepped(v, n, events) == [vte |-> v, consumed |-> n, events |-> events]

\* the final byte of a CSI: the open group is closed and the node dispatched
action_csi_dispatch(v, byte) ==
    LET w == IF ParamsFull(v) THEN [v EXCEPT !.ignoring = TRUE]
             ELSE [v EXCEPT !.params = Append(v.params, Append(v.group, v.param)),
                            !.group = <<>>]
    IN  Stepped([w EXCEPT !.state = "Ground"], 1,
                <<EvCsi(w.params, w.intermediates, byte)>>)

action_esc_dispatch(v, byte) ==
    Stepped([v EXCEPT !.state = "Ground"], 1, <<EvEsc(v.intermediates, byte)>>)

\* the OSC string ends: its last parameter is closed and the node dispatched
osc_end(v, byte, next) ==
    Stepped([v EXCEPT !.state = next, !.osc = <<>>, !.osc_param = <<>>], 1,
            <<EvOsc(Append(v.osc, v.osc_param), byte = BEL)>>)

IsC0(byte) == byte \in (0..23) \cup {25} \cup (28..31)

\* what every state but Ground does with CAN, SUB, ESC and bytes above DEL
anywhere(v, byte) ==
    CASE byte \in {24, 26} -> Stepped([v EXCEPT !.state = "Ground"], 1, <<EvExecute(byte)>>)
      [] byte = ESC -> Stepped([reset_params(v) EXCEPT !.state = "Escape"], 1, <<>>)
      [] OTHER -> Stepped(v, 1, <<>>)

IsLead2(byte) == byte \in 194..223
IsContinuation(byte) == byte \in 128..191
Decode2(b1, b2) == (b1 % 32) * 64 + (b2 % 64)

\* a char met in the Ground state: C0 and C1 controls are executed
ground_dispatch(c) ==
    IF c \in (0..31) \cup (128..159) THEN EvExecute(c % 256) ELSE EvPrint(c)

\* Ground: text up to the next ESC is decoded as UTF-8 and dispatched;
\* an invalid byte is executed if it is a C1 control and replaced otherwise
advance_ground(v, bytes, k) ==
    LET byte == bytes[k + 1] IN
    CASE byte = ESC ->
            Stepped([reset_params(v) EXCEPT !.state = "Escape"], 1, <<>>)
      [] byte < 128 ->
            Stepped(v, 1, <<ground_dispatch(byte)>>)
      [] IsLead2(byte) /\ k + 1 < Len(bytes) /\ IsContinuation(bytes[k + 2]) ->
            Stepped(v, 2, <<ground_dispatch(Decode2(byte, bytes[k + 2]))>>)
      [] IsLead2(byte) /\ k + 1 = Len(bytes) ->
            \* cut off by the end of the buffer: kept as a partial char
            Stepped(v, 1, <<>>)
      [] IsLead2(byte) /\ bytes[k + 2] = ESC ->
            \* cut off by an escape
            Stepped([reset_params(v) EXCEPT !.state = "Escape"], 2,
                    <<EvPrint(ReplacementChar)>>)
      [] OTHER ->
            Stepped(v, 1, <<IF byte <= 159 THEN EvExecute(byte)
                            ELSE EvPrint(ReplacementChar)>>)

\* Escape: the byte after ESC.  The DCS and SOS/PM/APC introducers
\* (0x50, 0x58, 0x5E, 0x5F) are not among the model's input bytes.
advance_escape(v, byte) ==
    CASE IsC0(byte) -> Stepped(v, 1, <<EvExecute(byte)>>)
      [] byte \in 32..47 ->
            Stepped([action_collect(v, byte) EXCEPT !.state = "EscapeIntermediate"], 1, <<>>)
      [] byte = 91 -> Stepped([reset_params(v) EXCEPT !.state = "CsiEntry"], 1, <<>>)
      [] byte = 93 ->
            Stepped([v EXCEPT !.state = "OscString", !.osc = <<>>, !.osc_param = <<>>], 1, <<>>)
      [] byte \in 48..126 -> action_esc_dispatch(v, byte)
      [] byte = 127 -> Stepped(v, 1, <<>>)
      [] OTHER -> anywhere(v, byte)

advance_escape_intermediate(v, byte) ==
    CASE IsC0(byte) -> Stepped(v, 1, <<EvExecute(byte)>>)
      [] byte \in 32..47 -> Stepped(action_collect(v, byte), 1, <<>>)
      [] byte \in 48..126 -> action_esc_dispatch(v, byte)
      [] byte = 127 -> Stepped(v, 1, <<>>)
      [] OTHER -> anywhere(v, byte)

advance_csi_entry(v, byte) ==
    CASE IsC0(byte) -> Stepped(v, 1, <<EvExecute(byte)>>)
      [] byte \in 32..47 ->
            Stepped([action_collect(v, byte) EXCEPT !.state = "CsiIntermediate"], 1, <<>>)
      [] byte \in 48..57 ->
            Stepped([action_paramnext(v, byte) EXCEPT !.state = "CsiParam"], 1, <<>>)
      [] byte = 58 -> Stepped([action_subparam(v) EXCEPT !.state = "CsiParam"], 1, <<>>)
      [] byte = 59 -> Stepped([action_param(v) EXCEPT !.state = "CsiParam"], 1, <<>>)
      [] byte \in 60..63 ->
            Stepped([action_collect(v, byte) EXCEPT !.state = "CsiParam"], 1, <<>>)
      [] byte \in 64..126 -> action_csi_dispatch(v, byte)
      [] byte = 127 -> Stepped(v, 1, <<>>)
      [] OTHER -> anywhere(v, byte)

advance_csi_param(v, byte) ==
    CASE IsC0(byte) -> Stepped(v, 1, <<EvExecute(byte)>>)
      [] byte \in 32..47 ->
            Stepped([action_collect(v, byte) EXCEPT !.state = "CsiIntermediate"], 1, <<>>)
      [] byte \in 48..57 -> Stepped(action_paramnext(v, byte), 1, <<>>)
      [] byte = 58 -> Stepped(action_subparam(v), 1, <<>>)
      [] byte = 59 -> Stepped(action_param(v), 1, <<>>)
      [] byte \in 60..63 -> Stepped([v EXCEPT !.state = "CsiIgnore"], 1, <<>>)
      [] byte \in 64..126 -> action_csi_dispatch(v, byte)
      [] byte = 127 -> Stepped(v, 1, <<>>)
      [] OTHER -> anywhere(v, byte)

advance_csi_intermediate(v, byte) ==
    CASE IsC0(byte) -> Stepped(v, 1, <<EvExecute(byte)>>)
      [] byte \in 32..47 -> Stepped(action_collect(v, byte), 1, <<>>)
      [] byte \in 48..63 -> Stepped([v EXCEPT !.state = "CsiIgnore"], 1, <<>>)
      [] byte \in 64..126 -> action_csi_dispatch(v, byte)
      [] byte = 127 -> Stepped(v, 1, <<>>)
      [] OTHER -> anywhere(v, byte)

advance_csi_ignore(v, byte) ==
    CASE IsC0(byte) -> Stepped(v, 1, <<EvExecute(byte)>>)
      [] byte \in 32..63 -> Stepped(v, 1, <<>>)
      [] byte \in 64..126 -> Stepped([v EXCEPT !.state = "Ground"], 1, <<>>)
      [] byte = 127 -> Stepped(v, 1, <<>>)
      [] OTHER -> anywhere(v, byte)

\* OscString: BEL or ESC ends the string, ';' separates its parameters,
\* the other C0 controls are ignored and every other byte is kept raw
advance_osc_string(v, byte) ==
    CASE byte = BEL -> osc_end(v, byte, "Ground")
      [] byte = ESC -> osc_end(reset_params(v), byte, "Escape")
      [] byte \in {24, 26} ->
            LET e == osc_end(v, byte, "Ground")
            IN  Stepped(e.vte, 1, e.events \o <<EvExecute(byte)>>)
      [] IsC0(byte) -> Stepped(v, 1, <<>>)
      [] byte = 59 ->
            Stepped([v EXCEPT !.osc = Append(v.osc, v.osc_param), !.osc_param = <<>>], 1, <<>>)
      [] OTHER -> Stepped([v EXCEPT !.osc_param = Append(v.osc_param, byte)], 1, <<>>)

\* one step of Parser::advance at index k (0-based) of bytes
EngineStep(v, bytes, k) ==
    LET byte == bytes[k + 1] IN
    CASE v.state = "Ground" -> advance_ground(v, bytes, k)
      [] v.state = "Escape" -> advance_escape(v, byte)
      [] v.state = "EscapeIntermediate" -> advance_escape_intermediate(v, byte)
      [] v.state = "CsiEntry" -> advance_csi_entry(v, byte)
      [] v.state = "CsiParam" -> advance_csi_param(v, byte)
      [] v.state = "CsiIntermediate" -> advance_csi_intermediate(v, byte)
      [] v.state = "CsiIgnore" -> advance_csi_ignore(v, byte)
      [] OTHER -> advance_osc_string(v, byte)

\* the builder after the callback ev
Perform(b, ev) ==
    CASE ev.kind = "print" -> print(b, ev.byte)
      [] ev.kind = "execute" -> execute(b, ev.byte)
      [] ev.kind = "csi_dispatch" -> csi_dispatch(b, ev.params, ev.intermediates, ev.byte)
      [] ev.kind = "esc_dispatch" -> esc_dispatch(b, ev.intermediates, ev.byte)
      [] OTHER -> osc_dispatch(b, ev.params, ev.bell)

RECURSIVE PerformAll(_, _)
PerformAll(b, events) ==
    IF events = <<>> THEN b
    ELSE PerformAll(Perform(b, Head(events)), Tail(events))

(***************************************************************************)
(* parse_to_nodes: normalization, the engine's steps, the final flush.     *)
(***************************************************************************)
InitLexIdle ==
    /\ input = <<>> /\ input_to_parse = <<>> /\ pos = 0
    /\ vte = NewParser /\ nodes = <<>> /\ current_text = <<>> /\ pcL = "idle"

\* lines 71-85: the buffer is normalized if it holds a CR LF pair, the
\* builder and the parser are created
LexStart ==
    /\ pcL = "start"
    /\ input_to_parse' = IF needs_normalization(input) THEN normalize_crlf(input) ELSE input
    /\ pos' = 0 /\ vte' = NewParser /\ nodes' = <<>> /\ current_text' = <<>>
    /\ pcL' = "advance"
    /\ UNCHANGED <<input, sgrVars, optVars, convVars, htmlVars, mainVars>>

\* what parser.advance does at pos: the engine and the builder after the
\* step, and the kind of its first callback ("none": it makes no callback)
Advanced ==
    LET st == EngineStep(vte, input_to_parse, pos)
        b == PerformAll([nodes |-> nodes, current_text |-> current_text], st.events)
    IN  [vte |-> st.vte, pos |-> pos + st.consumed, nodes |-> b.nodes,
         current_text |-> b.current_text,
         kind |-> IF st.events = <<>> THEN "none" ELSE st.events[1].kind]

Advancing == pcL = "advance" /\ pos < Len(input_to_parse)

\* a step in which the engine calls nothing back
LexSilent ==
    /\ Advancing /\ Advanced.kind = "none"
    /\ vte' = Advanced.vte /\ pos' = Advanced.pos
    /\ nodes' = Advanced.nodes /\ current_text' = Advanced.current_text
    /\ UNCHANGED <<input, input_to_parse, pcL, sgrVars, optVars, convVars, htmlVars, mainVars>>

\* a step that calls print
LexPrint ==
    /\ Advancing /\ Advanced.kind = "print"
    /\ vte' = Advanced.vte /\ pos' = Advanced.pos
    /\ nodes' = Advanced.nodes /\ current_text' = Advanced.current_text
    /\ UNCHANGED <<input, input_to_parse, pcL, sgrVars, optVars, convVars, htmlVars, mainVars>>

\* a step that calls execute
LexExecute ==
    /\ Advancing /\ Advanced.kind = "execute"
    /\ vte' = Advanced.vte /\ pos' = Advanced.pos
    /\ nodes' = Advanced.nodes /\ current_text' = Advanced.current_text
    /\ UNCHANGED <<input, input_to_parse, pcL, sgrVars, optVars, convVars, htmlVars, mainVars>>

\* a step that calls csi_dispatch
LexCsiDispatch ==
    /\ Advancing /\ Advanced.kind = "csi_dispatch"
    /\ vte' = Advanced.vte /\ pos' = Advanced.pos
    /\ nodes' = Advanced.nodes /\ current_text' = Advanced.current_text
    /\ UNCHANGED <<input, input_to_parse, pcL, sgrVars, optVars, convVars, htmlVars, mainVars>>

\* a step that calls esc_dispatch
LexEscDispatch ==
    /\ Advancing /\ Advanced.kind = "esc_dispatch"
    /\ vte' = Advanced.vte /\ pos' = Advanced.pos
    /\ nodes' = Advanced.nodes /\ current_text' = Advanced.current_text
    /\ UNCHANGED <<input, input_to_parse, pcL, sgrVars, optVars, convVars, htmlVars, mainVars>>

\* a step that calls osc_dispatch
LexOscDispatch ==
    /\ Advancing /\ Advanced.kind = "osc_dispatch"
    /\ vte' = Advanced.vte /\ pos' = Advanced.pos
    /\ nodes' = Advanced.nodes /\ current_text' = Advanced.current_text
    /\ UNCHANGED <<input, input_to_parse, pcL, sgrVars, optVars, convVars, htmlVars, mainVars>>

\* lines 88-90: the final flush, builder.nodes is returned
LexReturn ==
    /\ pcL = "advance"
    /\ pos = Len(input_to_parse)
    /\ LET b == flush_text([nodes |-> nodes, current_text |-> current_text])
       IN  nodes' = b.nodes /\ current_text' = b.current_text
    /\ pcL' = "done"
    /\ UNCHANGED <<input, input_to_parse, pos, vte, sgrVars, optVars, convVars, htmlVars, mainVars>>

NextLex ==
    \/ LexStart \/ LexSilent \/ LexPrint \/ LexExecute
    \/ LexCsiDispatch \/ LexEscDispatch \/ LexOscDispatch \/ LexReturn


(***************************************************************************)
(* The arguments the resolver is run on.                                   *)
(***************************************************************************)
\* lists of 1..n elements of S
ListsUpTo(S, n) == UNION {[1..k -> S] : k \in 1..n}

\* the pieces of a list, one after the other
RECURSIVE Flatten(_)
Flatten(pieces) == IF pieces = <<>> THEN <<>> ELSE Head(pieces) \o Flatten(Tail(pieces))

\* param groups of every kind of rule, one or two representatives each
GeneralGroups ==
    {<<0>>, <<1>>, <<2>>, <<3>>, <<4, 2>>, <<21>>, <<22>>,
     <<31>>, <<42>>, <<91>>, <<102>>,
     <<38, 5, 196>>, <<38, 2, 255, 50, 0>>, <<48, 5, 12>>,
     <<39>>, <<49>>, <<56>>}

\* leading values that no rule of from_ansi_node recognizes
UnknownCodes == {56, 60, 89, 98, 108, 300, 65535}

\* the bold / standard / bright groups of one colour index n
BoldGroups(n) == {<<1>>, <<22>>, <<30 + n>>, <<90 + n>>, <<40 + n>>, <<100 + n>>}

\* the groups the successive Csi nodes of one input are made of
NodeGroups == {<<0>>, <<1>>, <<22>>, <<31>>, <<91>>}

\* channel values at and beyond the end of a u8, up to the end of a u16
ChannelEdges == {0, 255, 256, 300, 65535}

\* one true-colour group for the foreground, background or underline colour
ClampGroups ==
    {<<base, 2, r, g, b>> : base \in {38, 48, 58},
                            r \in ChannelEdges, g \in ChannelEdges, b \in ChannelEdges}

\* one palette group with an index at or beyond the end of a u8
PaletteEdgeGroups ==
    {<<base, 5, P>> : base \in {38, 48, 58}, P \in ChannelEdges}

\* an extended-colour group that ends before its last sub-value
ShortGroups ==
    {<<base, mode>> : base \in {38, 48, 58}, mode \in {5, 2}}
        \cup {<<base, 2, r>> : base \in {38, 48, 58}, r \in ChannelEdges}

\* the superscript / subscript groups, a reset and bold
ScriptGroups == {<<73>>, <<74>>, <<75>>, <<0>>, <<1>>}

\* one Csi node: any list of general groups, or such a list ended by an
\* unrecognized group, or a list of bold / colour groups of one index, or
\* one extended-colour group, or a list of script groups
SingleNodeParams ==
    ListsUpTo(GeneralGroups, MaxGroups)
    \cup {Append(p, <<u>>) : p \in ListsUpTo(GeneralGroups, MaxGroups - 1), u \in UnknownCodes}
    \cup UNION {ListsUpTo(BoldGroups(n), MaxBoldGroups) : n \in 0..7}
    \cup {<<g>> : g \in ClampGroups \cup PaletteEdgeGroups \cup ShortGroups}
    \cup ListsUpTo(ScriptGroups, MaxGroups)

\* several Csi nodes, each of one or two groups
SeveralNodes ==
    UNION {[1..k -> ListsUpTo(NodeGroups, 2)] : k \in 2..MaxNodes}

InitHtmlIdle ==
    /\ self_node = Default /\ called_on = Default /\ tag_html = ""
    /\ html_calls = 0

InitMainIdle ==
    /\ main_ast = <<>> /\ main_i = 0 /\ main_color = "None"
    /\ main_result = <<>> /\ pcM = "idle"

InitConvIdle ==
    /\ conv_input = <<>> /\ cpos = 0 /\ conv_ast = <<>> /\ html = "" /\ pcC = "idle"

InitSgrIdle ==
    /\ sgrNodes = <<>> /\ ni = 1 /\ gi = 0
    /\ result = Default /\ styles = <<>> /\ pcS = "idle"

InitOptIdle ==
    /\ ast = <<>> /\ i = 0 /\ current_color = "None" /\ opt_result = <<>>
    /\ pass = 1 /\ first_output = <<>> /\ pcO = "idle"

InitSgr ==
    /\ sgrNodes \in {<<p>> : p \in SingleNodeParams} \cup SeveralNodes
    /\ ni = 1 /\ gi = 0
    /\ result = Default /\ styles = <<>> /\ pcS = "call"
    /\ InitOptIdle /\ InitLexIdle /\ InitConvIdle /\ InitHtmlIdle /\ InitMainIdle

(***************************************************************************)
(* from_ansi_node, one loop iteration per step.                            *)
(***************************************************************************)
\* the StyleNode the previous call returned (Default before the first call)
PreviousStyle == IF styles = <<>> THEN Default ELSE styles[Len(styles)]

\* `let mut result = Self::default();`
SgrCall ==
    /\ pcS = "call"
    /\ result' = InitialResult(PreviousStyle)
    /\ gi' = 0
    /\ pcS' = "fold"
    /\ UNCHANGED <<sgrNodes, ni, styles, optVars, lexVars, convVars, htmlVars, mainVars>>

\* one iteration of `for param_group in params`
SgrFold ==
    /\ pcS = "fold"
    /\ gi < Len(sgrNodes[ni])
    /\ result' = ApplyGroup(result, sgrNodes[ni][gi + 1])
    /\ gi' = gi + 1
    /\ UNCHANGED <<sgrNodes, ni, styles, pcS, optVars, lexVars, convVars, htmlVars, mainVars>>

\* the loop is over: `result` is returned, and the next Csi node is resolved
SgrReturn ==
    /\ pcS = "fold"
    /\ gi = Len(sgrNodes[ni])
    /\ styles' = Append(styles, result)
    /\ IF ni < Len(sgrNodes)
       THEN ni' = ni + 1 /\ pcS' = "call"
       ELSE ni' = ni /\ pcS' = "done"
    /\ UNCHANGED <<sgrNodes, gi, result, optVars, lexVars, convVars, htmlVars, mainVars>>

NextSgr == SgrCall \/ SgrFold \/ SgrReturn

SpecSgr == InitSgr /\ [][NextSgr]_vars

(***************************************************************************)
(* Properties of the style resolver.                                       *)
(***************************************************************************)
\* the param groups the running call has folded so far
Folded == IF pcS = "fold" THEN SubSeq(sgrNodes[ni], 1, gi) ELSE <<>>

\* the state before the last folded group, recomputed from the default state
BeforeLast == FoldGroups(Default, SubSeq(Folded, 1, Len(Folded) - 1))

\* the leading values some rule of the spec's table recognizes
RecognizedCodes ==
    (0..55) \cup {58, 59, 73, 74, 75} \cup (90..97) \cup (100..107)

\* whether group g selects a foreground (a colour, the default, or a reset)
SelectsForeground(g) ==
    \/ g[1] \in (30..37) \cup (90..97) \cup {0, 39}
    \/ g[1] = 38 /\ ExtendedColor(g) # NoColor

SelectsBackground(g) ==
    \/ g[1] \in (40..47) \cup (100..107) \cup {0, 49}
    \/ g[1] = 48 /\ ExtendedColor(g) # NoColor

\* index of the last group of seq for which Test holds, 0 if there is none
LastIndex(seq, Test(_)) ==
    LET hits == {k \in 1..Len(seq) : Test(seq[k])}
    IN  IF hits = {} THEN 0 ELSE CHOOSE k \in hits : \A m \in hits : m <= k

IsReset(g) == g[1] = 0

C4_FlagOnlyOnPromotedBright ==
    pcS = "fold" =>
        /\ result.fg_bright_from_bold => result.foreground.kind = "Bright"
        /\ result.bg_bright_from_bold => result.background.kind = "Bright"
        /\ ( /\ gi >= 1
             /\ \/ Folded[gi][1] \in (90..97) \cup {39}
                \/ Folded[gi][1] = 38 /\ ExtendedColor(Folded[gi]) # NoColor )
           => ~result.fg_bright_from_bold
        /\ ( /\ gi >= 1
             /\ \/ Folded[gi][1] \in (100..107) \cup {49}
                \/ Folded[gi][1] = 48 /\ ExtendedColor(Folded[gi]) # NoColor )
           => ~result.bg_bright_from_bold

\* C5: when the most recent foreground selection is an explicit bright
\* code 90+n, folding 21 or 22 leaves the foreground Bright(n); the same
\* for the background and 100+n.
C5_ExplicitBrightKept ==
    (pcS = "fold" /\ gi >= 2 /\ Folded[gi][1] \in {21, 22}) =>
        LET before == SubSeq(Folded, 1, gi - 1)
            kf == LastIndex(before, SelectsForeground)
            kb == LastIndex(before, SelectsBackground)
        IN  /\ (kf > 0 /\ before[kf][1] \in 90..97)
                  => result.foreground = Bright(before[kf][1] - 90)
            /\ (kb > 0 /\ before[kb][1] \in 100..107)
                  => result.background = Bright(before[kb][1] - 100)

\* C6: from the default state, [1], [30+n], [22] gives foreground
\* Standard(n) with bold off and the provenance flag false, and
\* [90+n], [1], [22] gives foreground Bright(n) with bold off.
C6_BoldBrightSymmetry ==
    \A n \in 0..7 :
        /\ (pcS = "fold" /\ Folded = <<<<1>>, <<30 + n>>, <<22>>>>)
              => /\ result.foreground = Standard(n)
                 /\ ~result.bold
                 /\ ~result.fg_bright_from_bold
        /\ (pcS = "fold" /\ Folded = <<<<90 + n>>, <<1>>, <<22>>>>)
              => /\ result.foreground = Bright(n)
                 /\ ~result.bold

\* the call has folded bold, white, bold-off
C6_Witness == pcS = "fold" /\ Folded = <<<<1>>, <<37>>, <<22>>>>

\* C7: the state right after a group whose first value is 0 is the default
\* state, so the state depends only on the groups after the last reset.
C7_ResetDominance ==
    pcS = "fold" =>
        LET k == LastIndex(Folded, IsReset)
        IN  /\ (gi >= 1 /\ k = gi) => result = Default
            /\ k > 0 => result = FoldGroups(Default, SubSeq(Folded, k + 1, gi))

\* a reset has been folded on a state with colours and attributes set, and
\* a group after it has been folded too
C7_Witness ==
    /\ pcS = "fold" /\ gi = 3 /\ Folded[2][1] = 0
    /\ FoldGroups(Default, SubSeq(Folded, 1, 1)).foreground # NoColor
    /\ result # Default

\* C8: a group whose leading value no rule recognizes leaves every field
\* of the state as it was.
C8_UnknownCodeIsNoOp ==
    (pcS = "fold" /\ gi >= 1 /\ Folded[gi][1] \notin RecognizedCodes)
        => result = BeforeLast

\* code 108 has been folded on a state that is not the default state
C8_Witness ==
    /\ pcS = "fold" /\ gi >= 2 /\ Folded[gi] = <<108>>
    /\ BeforeLast # Default

\* min(value, 255)
Clamped(value) == IF value > 255 THEN 255 ELSE value

\* C22: for the true-colour groups [38,2,R,G,B], [48,2,R,G,B] and
\* [58,2,R,G,B] with R, G, B any values in 0..65535, each stored channel is
\* min(value, 255): a value above 255 is clamped to 255, never wrapped.
C22_ChannelsClamped ==
    (pcS = "fold" /\ gi >= 1 /\ Len(Folded[gi]) = 5
       /\ Folded[gi][1] \in {38, 48, 58} /\ Folded[gi][2] = 2) =>
        LET g == Folded[gi]
            stored == Rgb(Clamped(g[3]), Clamped(g[4]), Clamped(g[5]))
        IN  /\ g[1] = 38 => result.foreground = stored
            /\ g[1] = 48 => result.background = stored
            /\ g[1] = 58 => result.underline_color = stored

\* an underline colour with channels 256, 65535 and 0 has been folded
C22_Witness ==
    /\ pcS = "fold" /\ Folded = <<<<58, 2, 256, 65535, 0>>>>
    /\ result.underline_color = Rgb(255, 255, 0)

\* C28: bold promotion touches only Standard colours: folding [1] on a state
\* whose foreground (or background) is Palette, Rgb, already Bright or unset
\* sets bold and leaves that colour and its provenance flag unchanged; on a
\* state whose foreground (or background) is Standard(n) it changes the
\* colour to Bright(n) and sets the provenance flag.
C28_BoldPromotesOnlyStandard ==
    (pcS = "fold" /\ gi >= 1 /\ Folded[gi] = <<1>>) =>
        LET before == BeforeLast IN
        /\ result.bold
        /\ IF before.foreground.kind = "Standard"
           THEN /\ result.foreground = Bright(before.foreground.a)
                /\ result.fg_bright_from_bold
           ELSE /\ result.foreground = before.foreground
                /\ result.fg_bright_from_bold = before.fg_bright_from_bold
        /\ IF before.background.kind = "Standard"
           THEN /\ result.background = Bright(before.background.a)
                /\ result.bg_bright_from_bold
           ELSE /\ result.background = before.background
                /\ result.bg_bright_from_bold = before.bg_bright_from_bold

\* bold has been folded on a palette foreground and a standard background
C28_Witness ==
    /\ pcS = "fold" /\ Folded = <<<<38, 5, 196>>, <<42>>, <<1>>>>
    /\ result.foreground = Palette(196) /\ ~result.fg_bright_from_bold
    /\ result.background = Bright(2) /\ result.bg_bright_from_bold

\* C29: from the default state bold and a standard colour selection commute:
\* for every n in 0..7, [1] then [30+n] gives the same state as [30+n] then
\* [1] (bold on, foreground Bright(n), fg_bright_from_bold true); likewise
\* for [40+n] and the background.
C29_BoldAndStandardCommute ==
    (pcS = "fold" /\ gi = 2) =>
        \A n \in 0..7 :
            /\ Folded \in {<<<<1>>, <<30 + n>>>>, <<<<30 + n>>, <<1>>>>}
                  => result = [Default EXCEPT !.bold = TRUE, !.foreground = Bright(n),
                                              !.fg_bright_from_bold = TRUE]
            /\ Folded \in {<<<<1>>, <<40 + n>>>>, <<<<40 + n>>, <<1>>>>}
                  => result = [Default EXCEPT !.bold = TRUE, !.background = Bright(n),
                                              !.bg_bright_from_bold = TRUE]

\* bold has been folded before a standard yellow foreground
C29_Witness ==
    /\ pcS = "fold" /\ Folded = <<<<1>>, <<33>>>>
    /\ result.foreground = Bright(3) /\ result.fg_bright_from_bold

\* C30: in every style state reachable by folding SGR parameter groups,
\* subscript and superscript are never both true: 73 sets superscript and
\* clears subscript, 74 sets subscript and clears superscript, 75 clears
\* both, and no other code sets either.
C30_ScriptsExclusive ==
    pcS = "fold" =>
        /\ ~(result.subscript /\ result.superscript)
        /\ (gi >= 1 /\ Folded[gi] # <<>>) =>
              LET h == Folded[gi][1]
                  before == BeforeLast
              IN  /\ h = 73 => (result.superscript /\ ~result.subscript)
                  /\ h = 74 => (result.subscript /\ ~result.superscript)
                  /\ h = 75 => (~result.subscript /\ ~result.superscript)
                  /\ h # 74 => (result.subscript => before.subscript)
                  /\ h # 73 => (result.superscript => before.superscript)

\* subscript has been folded on a state with superscript set
C30_Witness ==
    /\ pcS = "fold" /\ Folded = <<<<73>>, <<74>>>>
    /\ result.subscript /\ ~result.superscript

\* the attributes that are neither bold, dim, a colour nor a provenance flag
OtherAttributes ==
    {"italic", "underline", "underline_color", "subscript", "superscript", "blink",
     "reverse", "hidden", "strikethrough", "rapid_blink", "font", "fraktur",
     "proportional_spacing", "framed", "encircled", "overlined"}

\* C31: folding [21] or [22] clears bold and dim and, apart from downgrading
\* a bold-promoted bright foreground / background to Standard and clearing
\* its provenance flag, leaves every other attribute unchanged: italic,
\* underline, underline colour, blink, reverse, hidden, strikethrough, font,
\* the legacy flags, sub / superscript, and a colour that was not promoted
\* (its last selection was an explicit bright, palette or true-colour group).
C31_BoldOffFrame ==
    (pcS = "fold" /\ gi >= 1 /\ Folded[gi][1] \in {21, 22}) =>
        LET before == BeforeLast
            prior == SubSeq(Folded, 1, gi - 1)
            kf == LastIndex(prior, SelectsForeground)
            kb == LastIndex(prior, SelectsBackground)
        IN  /\ ~result.bold /\ ~result.dim
            /\ \A f \in OtherAttributes : result[f] = before[f]
            /\ (kf > 0 /\ prior[kf][1] \in (90..97) \cup {38})
                  => result.foreground = before.foreground
            /\ (kb > 0 /\ prior[kb][1] \in (100..107) \cup {48})
                  => result.background = before.background

\* the sub-value at position k of a group, 0 when it is absent
SubValue(g, k) == IF k <= Len(g) THEN g[k] ELSE 0

\* C32: in the extended-colour rules a sub-value that is absent from the
\* group is taken as 0: [38,5] sets foreground Palette(0), [38,2] sets
\* foreground Rgb(0,0,0), [38,2,R] sets Rgb(min(R,255),0,0); likewise for 48
\* (background) and 58 (underline colour).
C32_AbsentSubValueIsZero ==
    (pcS = "fold" /\ gi >= 1 /\ Len(Folded[gi]) \in 2..4
       /\ Folded[gi][1] \in {38, 48, 58} /\ Folded[gi][2] \in {5, 2}
       /\ (Folded[gi][2] = 5 => Len(Folded[gi]) = 2)) =>
        LET g == Folded[gi]
            stored == IF g[2] = 5
                      THEN Palette(SubValue(g, 3) % 256)
                      ELSE Rgb(Clamped(SubValue(g, 3)), Clamped(SubValue(g, 4)),
                               Clamped(SubValue(g, 5)))
        IN  /\ g[1] = 38 => result.foreground = stored
            /\ g[1] = 48 => result.background = stored
            /\ g[1] = 58 => result.underline_color = stored

\* C39: for the palette groups [38,5,P], [48,5,P] and [58,5,P] with P any
\* value in 0..65535 the stored palette index is P mod 256: a value above
\* 255 is truncated to its low 8 bits, not clamped or ignored, and the stored
\* index is always within 0..255.
C39_PaletteIndexTruncated ==
    (pcS = "fold" /\ gi >= 1 /\ Len(Folded[gi]) >= 3
       /\ Folded[gi][1] \in {38, 48, 58} /\ Folded[gi][2] = 5) =>
        LET g == Folded[gi]
            stored == IF g[1] = 38 THEN result.foreground
                      ELSE IF g[1] = 48 THEN result.background
                      ELSE result.underline_color
        IN  /\ stored = Palette(g[3] % 256)
            /\ stored.a \in 0..255

\* a background palette index of 300 has been folded: 44 is stored
C39_Witness ==
    /\ pcS = "fold" /\ Folded = <<<<48, 5, 300>>>>
    /\ result.background = Palette(44)

(***************************************************************************)
(* shellvetica.rs: tokens and Shellvetica::optimize_ast.                   *)
(***************************************************************************)
\* Token::Text(c), Token::Color(color), Token::Close
Text(ch) == [kind |-> "Text", v |-> ch]
Color(color) == [kind |-> "Color", v |-> color]
Close == [kind |-> "Close", v |-> ""]

\* char::is_whitespace, on the characters of the model
is_whitespace(ch) == ch \in {" ", "\n", "\t"}

\* the token streams optimize_ast is run on
Tokens == {Text("a"), Text(" "), Color("Blue"), Color("Yellow"), Close}
TokenStreams == UNION {[1..k -> Tokens] : k \in 0..MaxTokens}

\* n times the token t
Run(t, n) == [k \in 1..n |-> t]

\* the shape of optimize_ast_whitespace_test: open c, text, closes,
\* whitespace, open d, text, closes
ElisionStream(c, d, closes, spaces, last) ==
    <<Color(c), Text("a")>> \o Run(Close, closes) \o Run(Text(" "), spaces)
        \o <<Color(d), Text("a")>> \o Run(Close, last)

ElisionStreams ==
    {ElisionStream(c, d, closes, spaces, last) :
        c \in {"Blue", "Yellow"}, d \in {"Blue", "Yellow"},
        closes \in 1..MaxRun, spaces \in 0..MaxRun, last \in 1..MaxRun}

\* the lookahead loop `while j < ast.len()` of the Close arm, from index j
\* (0-based) with the flags found so far
RECURSIVE Lookahead(_, _, _, _)
Lookahead(tokens, j, open_color, has_non_whitespace) ==
    IF j >= Len(tokens)
    THEN [j |-> j, has_non_whitespace |-> has_non_whitespace,
          has_different_color |-> FALSE, has_color |-> FALSE]
    ELSE LET t == tokens[j + 1] IN
         CASE t.kind = "Text" ->
                Lookahead(tokens, j + 1, open_color,
                          has_non_whitespace \/ ~is_whitespace(t.v))
           [] t.kind = "Color" ->
                [j |-> j, has_non_whitespace |-> has_non_whitespace,
                 has_different_color |-> (t.v # open_color), has_color |-> TRUE]
           [] OTHER ->
                [j |-> j, has_non_whitespace |-> TRUE,
                 has_different_color |-> FALSE, has_color |-> FALSE]

\* a condition that asks for any colour after the close, not a different one
EmitsCloseBeforeAnyColor(tokens, scan) ==
    \/ scan.has_color
    \/ scan.j = Len(tokens) /\ ~scan.has_color

\* the condition under which the Close arm pushes Token::Close
EmitsClose(tokens, scan) ==
    \/ scan.has_non_whitespace /\ scan.has_color
    \/ scan.has_different_color
    \/ scan.j = Len(tokens) /\ ~scan.has_color

\* a Close arm that does not ask whether a colour is open
ScopeOpenAlways(color) == TRUE

\* `if let Some(open_color) = current_color` of the Close arm
ScopeOpen(color) == color # "None"

\* a Close arm that pushes Token::Close and leaves the colour open
ColorAfterCloseKept(open_color) == open_color

\* `current_color = None` after Token::Close was pushed
ColorAfterClose(open_color) == "None"

\* a main loop that steps over two tokens at a time
NextIndexSkips(k) == k + 2

\* `i += 1`, the last statement of each arm of the main loop
NextIndex(k) == k + 1

\* a Text arm that pushes only the characters that are not whitespace
PushTextTrimmed(res, t) == IF is_whitespace(t.v) THEN res ELSE Append(res, t)

\* `result.push(Token::Text(c))` of the Text arm
PushText(res, t) == Append(res, t)

InitOpt ==
    /\ ast \in TokenStreams \cup ElisionStreams
    /\ i = 0 /\ current_color = "None" /\ opt_result = <<>>
    /\ pass = 1 /\ first_output = <<>> /\ pcO = "scan"
    /\ InitSgrIdle /\ InitLexIdle /\ InitConvIdle /\ InitHtmlIdle /\ InitMainIdle

\* Token::Color(color) => ...
OptColor ==
    /\ pcO = "scan" /\ i < Len(ast)
    /\ ast[i + 1].kind = "Color"
    /\ IF current_color # "None" /\ current_color = ast[i + 1].v
       THEN UNCHANGED <<current_color, opt_result>>
       ELSE /\ current_color' = ast[i + 1].v
            /\ opt_result' = Append(opt_result, ast[i + 1])
    /\ i' = NextIndex(i)
    /\ UNCHANGED <<ast, pass, first_output, pcO, sgrVars, lexVars, convVars, htmlVars, mainVars>>

\* Token::Close => ...
OptClose ==
    /\ pcO = "scan" /\ i < Len(ast)
    /\ ast[i + 1].kind = "Close"
    /\ IF ScopeOpen(current_color)
          /\ EmitsClose(ast, Lookahead(ast, i + 1, current_color, FALSE))
       THEN /\ opt_result' = Append(opt_result, Close)
            /\ current_color' = ColorAfterClose(current_color)
       ELSE UNCHANGED <<current_color, opt_result>>
    /\ i' = NextIndex(i)
    /\ UNCHANGED <<ast, pass, first_output, pcO, sgrVars, lexVars, convVars, htmlVars, mainVars>>

\* Token::Text(c) => ...
OptText ==
    /\ pcO = "scan" /\ i < Len(ast)
    /\ ast[i + 1].kind = "Text"
    /\ opt_result' = PushText(opt_result, ast[i + 1])
    /\ i' = NextIndex(i)
    /\ UNCHANGED <<ast, current_color, pass, first_output, pcO, sgrVars, lexVars, convVars, htmlVars, mainVars>>

\* `while i < ast.len()` is over: `result` is returned
OptReturn ==
    /\ pcO = "scan" /\ ~(i < Len(ast))
    /\ pcO' = "returned"
    /\ UNCHANGED <<ast, i, current_color, opt_result, pass, first_output, sgrVars, lexVars, convVars, htmlVars, mainVars>>

\* optimize_ast is applied to what it has just returned
OptAgain ==
    /\ pcO = "returned" /\ pass = 1
    /\ first_output' = opt_result
    /\ ast' = opt_result
    /\ i' = 0 /\ current_color' = "None" /\ opt_result' = <<>>
    /\ pass' = 2 /\ pcO' = "scan"
    /\ UNCHANGED <<sgrVars, lexVars, convVars, htmlVars, mainVars>>

NextOpt == OptColor \/ OptClose \/ OptText \/ OptReturn \/ OptAgain

SpecOpt == InitOpt /\ [][NextOpt]_vars

\* the same run, in which a call that has a step to take takes it
SpecOptLive == InitOpt /\ [][NextOpt]_vars /\ WF_vars(NextOpt)

(***************************************************************************)
(* Properties of the run optimizer.                                        *)
(***************************************************************************)
\* how a token stream renders: each non-whitespace Text token with the
\* colour in effect at it (the most recent Color if no Close came after it)
RECURSIVE Rendering(_, _)
Rendering(tokens, color) ==
    IF tokens = <<>> THEN <<>>
    ELSE LET t == Head(tokens) IN
         CASE t.kind = "Color" -> Rendering(Tail(tokens), t.v)
           [] t.kind = "Close" -> Rendering(Tail(tokens), "None")
           [] OTHER ->
                IF is_whitespace(t.v)
                THEN Rendering(Tail(tokens), color)
                ELSE <<<<t.v, color>>>> \o Rendering(Tail(tokens), color)

\* C9: the output of optimize_ast renders identically to its input: every
\* non-whitespace Text token is under the same colour in both.
C9_RendersIdentically ==
    pcO = "returned" => Rendering(opt_result, "None") = Rendering(ast, "None")

\* C10: optimize_ast is idempotent: applied to its own output it returns
\* that output.
C10_Idempotent ==
    (pcO = "returned" /\ pass = 2) => opt_result = first_output

\* the second application has returned, on a first output that still has
\* a colour, a close and text in it and that is shorter than the input was
C10_Witness ==
    /\ pcO = "returned" /\ pass = 2
    /\ \E k \in 1..Len(first_output) : first_output[k].kind = "Color"
    /\ \E k \in 1..Len(first_output) : first_output[k].kind = "Close"
    /\ \E k \in 1..Len(first_output) : first_output[k].kind = "Text"

\* the indices of the Color tokens of a stream
ColorIndices(tokens) == {k \in 1..Len(tokens) : tokens[k].kind = "Color"}

\* C11: in every output of optimize_ast at most one style scope is open at
\* any point: between any two Color tokens of the output there is a Close
\* token, so the exported markup never nests spans.
C11_NoNestedScopes ==
    \A p \in ColorIndices(opt_result) : \A q \in ColorIndices(opt_result) :
        p < q => \E k \in (p + 1)..(q - 1) : opt_result[k].kind = "Close"

\* the positions of a stream at which a Color is directly followed by a
\* different Color
Overwritten(tokens) ==
    {k \in 1..(Len(tokens) - 1) :
        /\ tokens[k].kind = "Color" /\ tokens[k + 1].kind = "Color"
        /\ tokens[k].v # tokens[k + 1].v}

\* C12: a Color directly followed by a different Color is not emitted: the
\* output has no Color token for an overwritten Color of the input, and when
\* the input starts with such a pair the output starts with the later Color.
C12_OverwrittenColorDropped ==
    (pcO = "returned" /\ pass = 1) =>
        /\ Cardinality(ColorIndices(opt_result))
              <= Cardinality(ColorIndices(ast)) - Cardinality(Overwritten(ast))
        /\ (1 \in Overwritten(ast) /\ 2 \notin Overwritten(ast))
              => (opt_result # <<>> /\ opt_result[1] = ast[2])

\* from index k (1-based) on, the stream is a run of one or more Close
\* tokens, then whitespace Text tokens only, then Color(c)
ElidableRun(tokens, k, c) ==
    /\ k <= Len(tokens) /\ tokens[k].kind = "Close"
    /\ \E e \in (k + 1)..Len(tokens) :
          /\ tokens[e] = Color(c)
          /\ \E m \in k..(e - 1) :
                /\ \A x \in k..m : tokens[x].kind = "Close"
                /\ \A x \in (m + 1)..(e - 1) :
                      tokens[x].kind = "Text" /\ is_whitespace(tokens[x].v)

\* C13: when color c is open and a run of Close tokens is followed only by
\* whitespace Text and then Color(c), neither those Close tokens nor the
\* repeated Color(c) is emitted: no Close of such a run is pushed, and open-c,
\* text, closes, whitespace, open-c, text, closes comes out as one open/close
\* pair around all the text and whitespace.
C13_WhitespaceElision ==
    /\ (pcO = "scan" /\ current_color # "None" /\ ElidableRun(ast, i + 1, current_color))
          => ~EmitsClose(ast, Lookahead(ast, i + 1, current_color, FALSE))
    /\ \A c \in {"Blue", "Yellow"} : \A closes \in 1..MaxRun :
       \A spaces \in 0..MaxRun : \A last \in 1..MaxRun :
          (pcO = "returned" /\ pass = 1 /\ ast = ElisionStream(c, c, closes, spaces, last))
             => opt_result = <<Color(c), Text("a")>> \o Run(Text(" "), spaces)
                                \o <<Text("a"), Close>>

\* the whitespace scenario has been optimized: several closes and spaces
\* between two opens of the same colour
C13_Witness ==
    /\ pcO = "returned" /\ pass = 1
    /\ \E c \in {"Blue", "Yellow"} : ast = ElisionStream(c, c, MaxRun, MaxRun, MaxRun)
    /\ Len(opt_result) = MaxRun + 4

\* C14: the output never has a Close token where no color scope is open:
\* every Close of the output has a Color before it with no other Close
\* between them, so a Close that arrives with no color open is dropped and a
\* run of Close tokens after one open color leaves at most one Close.
C14_NoCloseWithoutOpen ==
    \A k \in 1..Len(opt_result) :
        opt_result[k].kind = "Close" =>
            \E p \in 1..(k - 1) :
                /\ opt_result[p].kind = "Color"
                /\ \A q \in (p + 1)..(k - 1) : opt_result[q].kind # "Close"

\* an input that starts with a Close and has two Close tokens in a row after
\* a Color has been optimized, and its output has a Close
C14_Witness ==
    /\ pcO = "returned" /\ pass = 1
    /\ ast # <<>> /\ ast[1].kind = "Close"
    /\ \E k \in 2..(Len(ast) - 2) :
          ast[k].kind = "Color" /\ ast[k + 1].kind = "Close" /\ ast[k + 2].kind = "Close"
    /\ \E k \in 1..Len(opt_result) : opt_result[k].kind = "Close"

\* the index (1-based) of the first token after index k that is not
\* whitespace text, 0 if there is none
RECURSIVE FirstMet(_, _)
FirstMet(tokens, k) ==
    IF k >= Len(tokens) THEN 0
    ELSE IF tokens[k + 1].kind = "Text" /\ is_whitespace(tokens[k + 1].v)
         THEN FirstMet(tokens, k + 1)
         ELSE k + 1

\* C27: with a colour open, optimize_ast emits a Close for an input Close
\* whenever the forward scan from that Close meets a Color different from
\* the open one, a non-whitespace Text token, or the end of input; a Close
\* followed by non-whitespace text is emitted whatever comes after the text.
\* Once such a Close has been handled no colour is open any more.
C27_CloseEmittedBeforeContent ==
    (pcO = "scan" /\ i >= 1 /\ ast[i].kind = "Close" /\ current_color # "None") =>
        LET met == FirstMet(ast, i) IN
        /\ met # 0
        /\ ~(ast[met].kind = "Text")
        /\ ~(ast[met].kind = "Color" /\ ast[met].v # current_color)

\* every index the main loop and the lookahead loop read is inside the
\* stream, and the result is no longer than the input
Bounded ==
    /\ i \in 0..Len(ast)
    /\ Len(opt_result) <= Len(ast)
    /\ (pcO = "scan" /\ i < Len(ast) /\ ast[i + 1].kind = "Close") =>
          Lookahead(ast, i + 1, current_color, FALSE).j \in (i + 1)..Len(ast)

\* C33: optimize_ast terminates on every finite token stream and returns a
\* result: every index read by the main scan and by the lookahead scan is
\* within bounds, the main index advances by one on every iteration, the
\* output has at most as many tokens as the input, and the call returns.
C33_TerminatesInBounds ==
    /\ []Bounded
    /\ [][(pcO = "scan" /\ pcO' = "scan") => i' = i + 1]_vars
    /\ <>[](pcO = "returned" /\ pass = 2)

\* a call has returned on a stream in which the lookahead of a Close ran
\* to the end of the input, with fewer tokens out than in
C33_Witness ==
    /\ pcO = "returned" /\ pass = 1 /\ i = Len(ast)
    /\ Len(opt_result) < Len(ast)
    /\ \E k \in 2..Len(ast) :
          /\ ast[k].kind = "Close" /\ ast[k - 1].kind = "Color"
          /\ Lookahead(ast, k, ast[k - 1].v, FALSE).j = Len(ast)
          /\ k < Len(ast)

\* the Text tokens of a stream, in order
TextsOf(tokens) == SelectSeq(tokens, LAMBDA t : t.kind = "Text")

\* xs is ys with some of its tokens left out
RECURSIVE IsSubsequence(_, _)
IsSubsequence(xs, ys) ==
    IF xs = <<>> THEN TRUE
    ELSE IF ys = <<>> THEN FALSE
    ELSE IF Head(xs) = Head(ys) THEN IsSubsequence(Tail(xs), Tail(ys))
    ELSE IsSubsequence(xs, Tail(ys))

\* C34: optimize_ast leaves the text untouched: the Text tokens of its
\* output are the Text tokens of its input, in content and order; only
\* Color and Close tokens are removed, none is added or reordered.
C34_TextUntouched ==
    /\ TextsOf(opt_result) = TextsOf(SubSeq(ast, 1, i))
    /\ IsSubsequence(opt_result, SubSeq(ast, 1, i))

\* a call has returned on a stream with whitespace and other text in it,
\* from which a Color or a Close was removed
C34_Witness ==
    /\ pcO = "returned" /\ pass = 1
    /\ \E k \in 1..Len(ast) : ast[k] = Text(" ")
    /\ \E k \in 1..Len(ast) : ast[k] = Text("a")
    /\ Len(opt_result) < Len(ast)
    /\ Len(TextsOf(opt_result)) = 2

(***************************************************************************)
(* main.rs: optimize_ast, the earlier optimizer, over the same tokens.     *)
(* It is run on the stream Shellvetica::optimize_ast has just been run on. *)
(***************************************************************************)
\* the lookahead loop `while j < ast.len()` of the Close arm of main.rs,
\* from index j (0-based)
RECURSIVE MainLookahead(_, _, _)
MainLookahead(tokens, j, open_color) ==
    IF j >= Len(tokens)
    THEN [has_non_whitespace |-> FALSE, has_different_color |-> FALSE,
          has_following_color |-> FALSE]
    ELSE LET t == tokens[j + 1] IN
         CASE t.kind = "Text" ->
                IF ~is_whitespace(t.v)
                THEN [has_non_whitespace |-> TRUE, has_different_color |-> FALSE,
                      has_following_color |-> FALSE]
                ELSE MainLookahead(tokens, j + 1, open_color)
           [] t.kind = "Color" ->
                [has_non_whitespace |-> FALSE,
                 has_different_color |-> (t.v # open_color),
                 has_following_color |-> TRUE]
           [] OTHER ->
                [has_non_whitespace |-> TRUE, has_different_color |-> FALSE,
                 has_following_color |-> FALSE]

\* `if !has_non_whitespace && has_different_color`
MainEmitsClose(scan) == ~scan.has_non_whitespace /\ scan.has_different_color

\* optimize_ast(&mut ast) of main.rs is called on the stream
MainCall ==
    /\ pcO = "returned" /\ pass = 1 /\ pcM = "idle"
    /\ main_ast' = ast
    /\ main_i' = 0 /\ main_color' = "None" /\ main_result' = <<>>
    /\ pcM' = "scan"
    /\ UNCHANGED <<sgrVars, optVars, lexVars, convVars, htmlVars>>

\* Token::Color(color) => ...
MainColor ==
    /\ pcM = "scan" /\ main_i < Len(main_ast)
    /\ main_ast[main_i + 1].kind = "Color"
    /\ IF main_color # "None" /\ main_color = main_ast[main_i + 1].v
       THEN UNCHANGED <<main_color, main_result>>
       ELSE /\ main_color' = main_ast[main_i + 1].v
            /\ main_result' = Append(main_result, main_ast[main_i + 1])
    /\ main_i' = main_i + 1
    /\ UNCHANGED <<main_ast, pcM, sgrVars, optVars, lexVars, convVars, htmlVars>>

\* Token::Close => ...
MainClose ==
    /\ pcM = "scan" /\ main_i < Len(main_ast)
    /\ main_ast[main_i + 1].kind = "Close"
    /\ IF main_color # "None"
          /\ MainEmitsClose(MainLookahead(main_ast, main_i + 1, main_color))
       THEN /\ main_result' = Append(main_result, Close)
            /\ main_color' = "None"
       ELSE UNCHANGED <<main_color, main_result>>
    /\ main_i' = main_i + 1
    /\ UNCHANGED <<main_ast, pcM, sgrVars, optVars, lexVars, convVars, htmlVars>>

\* Token::Text(c) => ...
MainText ==
    /\ pcM = "scan" /\ main_i < Len(main_ast)
    /\ main_ast[main_i + 1].kind = "Text"
    /\ main_result' = Append(main_result, main_ast[main_i + 1])
    /\ main_i' = main_i + 1
    /\ UNCHANGED <<main_ast, main_color, pcM, sgrVars, optVars, lexVars, convVars, htmlVars>>

\* `*ast = result;`
MainReturn ==
    /\ pcM = "scan" /\ ~(main_i < Len(main_ast))
    /\ main_ast' = main_result
    /\ pcM' = "done"
    /\ UNCHANGED <<main_i, main_color, main_result, sgrVars, optVars, lexVars, convVars, htmlVars>>

NextMain ==
    \/ OptColor \/ OptClose \/ OptText \/ OptReturn
    \/ MainCall \/ MainColor \/ MainClose \/ MainText \/ MainReturn

SpecMain == InitOpt /\ [][NextMain]_vars

\* C40: the optimizer of main.rs and Shellvetica::optimize_ast produce the
\* same output token sequence for every input token stream over Text
\* characters, the colours Blue and Yellow, and Close.
C40_OptimizersAgree ==
    pcM = "done" => main_ast = opt_result

(***************************************************************************)
(* shellvetica.rs: Shellvetica::convert (str_2_ast, then optimize_ast) and *)
(* Shellvetica::export.  A char is a string of length one; "ESC" stands    *)
(* for the char U+001B.                                                    *)
(***************************************************************************)
\* char::is_ascii_alphabetic, on the chars of the model
is_ascii_alphabetic(ch) == ch \in {"a", "e", "m", "s", "t"}

\* the index (1-based) of the char that ends the sequence opened before k:
\* the first alphabetic char from k on, or the last char of the input
RECURSIVE SequenceEnd(_, _)
SequenceEnd(input_chars, k) ==
    IF k >= Len(input_chars) THEN Len(input_chars)
    ELSE IF is_ascii_alphabetic(input_chars[k]) THEN k
    ELSE SequenceEnd(input_chars, k + 1)

\* `match sequence.as_str()` of str_2_ast
SequenceToken(sequence) ==
    CASE sequence = <<"ESC", "[", "3", "0", "m">> -> Color("Black")
      [] sequence = <<"ESC", "[", "3", "1", "m">> -> Color("Red")
      [] sequence = <<"ESC", "[", "3", "2", "m">> -> Color("Green")
      [] sequence = <<"ESC", "[", "3", "3", "m">> -> Color("Yellow")
      [] sequence = <<"ESC", "[", "3", "4", "m">> -> Color("Blue")
      [] sequence = <<"ESC", "[", "3", "5", "m">> -> Color("Magenta")
      [] sequence = <<"ESC", "[", "3", "6", "m">> -> Color("Cyan")
      [] sequence = <<"ESC", "[", "3", "7", "m">> -> Color("White")
      [] sequence \in {<<"ESC", "[", "3", "9", "m">>, <<"ESC", "[", "4", "9", "m">>,
                       <<"ESC", "[", "3", "9", ";", "4", "9", "m">>,
                       <<"ESC", "[", "4", "9", ";", "3", "9", "m">>,
                       <<"ESC", "[", "0", "m">>} -> Close
      [] OTHER -> Color("Black")

\* Display for Color
ColorName(color) ==
    CASE color = "Black" -> "black"
      [] color = "Red" -> "red"
      [] color = "Green" -> "green"
      [] color = "Yellow" -> "yellow"
      [] color = "Blue" -> "blue"
      [] color = "Magenta" -> "magenta"
      [] color = "Cyan" -> "cyan"
      [] OTHER -> "white"

\* Display for Token
to_string(token) ==
    CASE token.kind = "Text" -> token.v
      [] token.kind = "Color" -> "<span style=\"color:" \o ColorName(token.v) \o "\">"
      [] OTHER -> "</span>"

\* Shellvetica::export
RECURSIVE export(_)
export(stream) ==
    IF stream = <<>> THEN "" ELSE to_string(Head(stream)) \o export(Tail(stream))

\* StyleNode::standard_color_to_hex (styles.rs), by colour index 0..7
standard_color_to_hex(color) ==
    <<"#000", "#cd0000", "#00cd00", "#cdcd00", "#00e", "#cd00cd", "#00cdcd", "#e5e5e5">>[color + 1]

\* the pieces the arguments of convert are made of
ConvPieces ==
    {<<"ESC", "[", "3", "1", "m">>, <<"ESC", "[", "3", "4", "m">>,
     <<"ESC", "[", "3", "9", "m">>, <<"ESC", "[", "0", "m">>,
     <<"ESC", "[", "3", "9", ";", "4", "9", "m">>, <<"ESC", "[", "1", "m">>,
     <<"ESC", "[">>, <<"ESC">>, <<"t", "e", "s", "t">>, <<"a">>, <<" ">>}

ConvInputs == {Flatten(pieces) : pieces \in ListsUpTo(ConvPieces, MaxPieces)} \cup {<<>>}

InitConvert ==
    /\ conv_input \in ConvInputs
    /\ cpos = 0 /\ conv_ast = <<>> /\ html = "" /\ pcC = "str_2_ast"
    /\ InitSgrIdle /\ InitOptIdle /\ InitLexIdle /\ InitHtmlIdle /\ InitMainIdle

\* `'\x1b' => if let Some(&'[') = chars.peek()`
AtSequence ==
    /\ conv_input[cpos + 1] = "ESC"
    /\ cpos + 1 < Len(conv_input) /\ conv_input[cpos + 2] = "["

\* str_2_ast: an escape sequence is read up to its alphabetic char and
\* becomes one token
ConvSequence ==
    /\ pcC = "str_2_ast" /\ cpos < Len(conv_input)
    /\ AtSequence
    /\ LET end == SequenceEnd(conv_input, cpos + 3)
       IN  /\ conv_ast' = Append(conv_ast, SequenceToken(SubSeq(conv_input, cpos + 1, end)))
           /\ cpos' = end
    /\ UNCHANGED <<conv_input, html, pcC, sgrVars, optVars, lexVars, htmlVars, mainVars>>

\* str_2_ast: any other char becomes a Text token
ConvText ==
    /\ pcC = "str_2_ast" /\ cpos < Len(conv_input)
    /\ ~AtSequence
    /\ conv_ast' = Append(conv_ast, Text(conv_input[cpos + 1]))
    /\ cpos' = cpos + 1
    /\ UNCHANGED <<conv_input, html, pcC, sgrVars, optVars, lexVars, htmlVars, mainVars>>

\* convert: str_2_ast has returned, optimize_ast is called on its result
ConvOptimize ==
    /\ pcC = "str_2_ast" /\ cpos = Len(conv_input)
    /\ ast' = conv_ast
    /\ i' = 0 /\ current_color' = "None" /\ opt_result' = <<>> /\ pcO' = "scan"
    /\ pcC' = "optimize_ast"
    /\ UNCHANGED <<conv_input, cpos, conv_ast, html, pass, first_output, sgrVars, lexVars, htmlVars, mainVars>>

\* export: the tokens convert has stored are written out
ConvExport ==
    /\ pcC = "optimize_ast" /\ pcO = "returned"
    /\ html' = export(opt_result)
    /\ pcC' = "done"
    /\ UNCHANGED <<conv_input, cpos, conv_ast, sgrVars, optVars, lexVars, htmlVars, mainVars>>

NextConvert ==
    \/ ConvSequence \/ ConvText \/ ConvOptimize
    \/ OptColor \/ OptClose \/ OptText \/ OptReturn
    \/ ConvExport

SpecConvert == InitConvert /\ [][NextConvert]_vars

\* the input ESC [ 3 1 m t e s t ESC [ 3 9 m
RedTest ==
    <<"ESC", "[", "3", "1", "m", "t", "e", "s", "t", "ESC", "[", "3", "9", "m">>

\* C15: end to end, ESC [ 3 1 m t e s t ESC [ 3 9 m converts to exactly one
\* style-open, the text "test" and one style-close with nothing after it,
\* and the colour written in the style-open is the hex value of the
\* standard-red table entry, #cd0000.
C15_RedTestEndToEnd ==
    (pcC = "done" /\ conv_input = RedTest) =>
        /\ opt_result = <<Color("Red"), Text("t"), Text("e"), Text("s"), Text("t"), Close>>
        /\ html \in {"<span style=\"color:" \o standard_color_to_hex(1) \o "\">test</span>",
                     "<span style=\"color:" \o standard_color_to_hex(1) \o ";\">test</span>"}

\* the sequences that select a foreground and the sequences that close
RecognizedColors ==
    {<<"ESC", "[", "3", d, "m">> : d \in {"0", "1", "2", "3", "4", "5", "6", "7"}}

RecognizedCloses ==
    {<<"ESC", "[", "3", "9", "m">>, <<"ESC", "[", "4", "9", "m">>,
     <<"ESC", "[", "3", "9", ";", "4", "9", "m">>,
     <<"ESC", "[", "4", "9", ";", "3", "9", "m">>, <<"ESC", "[", "0", "m">>}

\* the tokens of the chars after index k (0-based) when only a recognized
\* sequence gives a token and every char outside a sequence gives a Text
RECURSIVE RecognizedTokens(_, _)
RecognizedTokens(input_chars, k) ==
    IF k >= Len(input_chars) THEN <<>>
    ELSE IF /\ input_chars[k + 1] = "ESC"
            /\ k + 1 < Len(input_chars) /\ input_chars[k + 2] = "["
         THEN LET end == SequenceEnd(input_chars, k + 3)
                  sequence == SubSeq(input_chars, k + 1, end)
              IN  (IF sequence \in RecognizedColors \cup RecognizedCloses
                   THEN <<SequenceToken(sequence)>> ELSE <<>>)
                      \o RecognizedTokens(input_chars, end)
         ELSE <<Text(input_chars[k + 1])>> \o RecognizedTokens(input_chars, k + 1)

\* C38: str_2_ast produces a Color token only for ESC[30m to ESC[37m and a
\* Close token only for ESC[39m, ESC[49m, ESC[39;49m, ESC[49;39m and
\* ESC[0m; any other sequence, one cut off by the end of input included,
\* contributes no token, and every char outside a sequence becomes exactly
\* one Text token in input order.
C38_OnlyRecognizedSequencesGiveTokens ==
    pcC # "str_2_ast" => conv_ast = RecognizedTokens(conv_input, 0)

\* the number of tokens of one kind in a stream
CountKind(tokens, kind) ==
    Cardinality({k \in 1..Len(tokens) : tokens[k].kind = kind})

\* every Color token of the stream has a Close token somewhere after it
EveryColorClosed(tokens) ==
    \A p \in 1..Len(tokens) :
        tokens[p].kind = "Color" =>
            \E q \in (p + 1)..Len(tokens) : tokens[q].kind = "Close"

\* the number of places at which the string part occurs in the string text
Occurrences(text, part) ==
    Cardinality({k \in 1..(Len(text) - Len(part) + 1) :
                    SubSeq(text, k, k + Len(part) - 1) = part})

\* C35: when every Color token of the input of optimize_ast is followed
\* later by a Close token, every Color token of its output is too, and the
\* exported markup has as many closing </span> markers as opening <span
\* markers.
C35_SpansBalanced ==
    (pcC = "done" /\ EveryColorClosed(conv_ast)) =>
        /\ EveryColorClosed(opt_result)
        /\ Occurrences(html, "</span>") = Occurrences(html, "<span ")

(***************************************************************************)
(* styles.rs: StyleNode::to_html and the hex writers.  A String is a       *)
(* string, a u8 is a number in 0..255 and its arithmetic wraps at 256.     *)
(***************************************************************************)
\* StyleNode::HEX_CHARS
HEX_CHARS ==
    <<"0", "1", "2", "3", "4", "5", "6", "7", "8", "9", "a", "b", "c", "d", "e", "f">>

\* StyleNode::bright_color_to_hex, by colour index 0..7
bright_color_to_hex(color) ==
    <<"#7f7f7f", "#f00", "#0f0", "#ff0", "#5c5cff", "#f0f", "#0ff", "#fff">>[color + 1]

\* StyleNode::push_hex: the digits of byte >> 4 and byte & 0xf
push_hex(byte) == HEX_CHARS[(byte \div 16) + 1] \o HEX_CHARS[(byte % 16) + 1]

\* a shorthand test that looks at the red channel only
CanUseShorthandRedOnly(r, g, b) == r % 16 = r \div 16

\* `r & 0x0F == r >> 4 && g & 0x0F == g >> 4 && b & 0x0F == b >> 4`
CanUseShorthand(r, g, b) ==
    /\ r % 16 = r \div 16
    /\ g % 16 = g \div 16
    /\ b % 16 = b \div 16

\* StyleNode::push_hex_rgb
push_hex_rgb(r, g, b) ==
    "#" \o (IF CanUseShorthand(r, g, b)
            THEN HEX_CHARS[(r % 16) + 1] \o HEX_CHARS[(g % 16) + 1] \o HEX_CHARS[(b % 16) + 1]
            ELSE push_hex(r) \o push_hex(g) \o push_hex(b))

\* a colour cube with steps of 52
CubeChannelsStep52(color) ==
    LET n == (color - 16) % 256
    IN  <<((n \div 36) * 52) % 256, (((n % 36) \div 6) * 52) % 256, ((n % 6) * 52) % 256>>

\* the arm 16..=231 of append_color: `n`, `r`, `g`, `b`
CubeChannels(color) ==
    LET n == (color - 16) % 256
    IN  <<((n \div 36) * 51) % 256, (((n % 36) \div 6) * 51) % 256, ((n % 6) * 51) % 256>>

\* the arm 232..=255 of append_color: `gray`
GrayChannels(color) ==
    LET gray == (8 + ((((color - 232) % 256) * 10) % 256)) % 256
    IN  <<gray, gray, gray>>

\* a bright arm that does not subtract 8
BrightIndexUnshifted(color) == color

\* `color - 8` of the arm 8..=15 of append_color
BrightIndex(color) == (color - 8) % 256

\* StyleNode::append_color: what is pushed to html for a Color
append_color(color) ==
    CASE color.kind = "Standard" -> standard_color_to_hex(color.a)
      [] color.kind = "Bright" -> bright_color_to_hex(color.a)
      [] color.kind = "Palette" ->
            (CASE color.a \in 0..7 ->
                    standard_color_to_hex(EightBitColor_from_u8(color.a))
               [] color.a \in 8..15 ->
                    bright_color_to_hex(EightBitColor_from_u8(BrightIndex(color.a)))
               [] color.a \in 16..231 ->
                    LET ch == CubeChannels(color.a) IN push_hex_rgb(ch[1], ch[2], ch[3])
               [] OTHER ->
                    LET ch == GrayChannels(color.a) IN push_hex_rgb(ch[1], ch[2], ch[3]))
      [] OTHER -> push_hex_rgb(color.a, color.b, color.c)

\* `let tag = ...`
Tag(s) == IF s.subscript THEN "sub" ELSE IF s.superscript THEN "sup" ELSE "span"

\* the declaration written for self.underline
UnderlineDeclaration(underline) ==
    CASE underline = "Single" -> "text-decoration:underline;"
      [] underline = "Double" -> "text-decoration:underline double;"
      [] underline = "Curly" -> "text-decoration:underline wavy;"
      [] underline = "Dotted" -> "text-decoration:underline dotted;"
      [] underline = "Dashed" -> "text-decoration:underline dashed;"
      [] OTHER -> ""

\* `if let Some(color) = ... { push_str(property); append_color; push(';') }`
ColorDeclaration(property, color) ==
    IF color = NoColor THEN "" ELSE property \o append_color(color) \o ";"

\* a to_html that never swaps the colours
ReversedNever(s) == s

\* lines 403-407: `self` after the swap of foreground and background
Reversed(s) ==
    IF s.reverse
    THEN [s EXCEPT !.foreground = s.background, !.background = s.foreground]
    ELSE s

\* StyleNode::to_html: the String it returns and `self` as it leaves it
to_html(s) ==
    LET after == Reversed(s) IN
    [self |-> after,
     html |-> "<" \o Tag(s) \o " style=\""
              \o (IF s.bold THEN "font-weight:bold;" ELSE "")
              \o (IF s.dim THEN "opacity:.5;" ELSE "")
              \o (IF s.italic THEN "font-style:italic;" ELSE "")
              \o UnderlineDeclaration(s.underline)
              \o ColorDeclaration("text-decoration-color:", s.underline_color)
              \o ColorDeclaration("color:", after.foreground)
              \o ColorDeclaration("background:", after.background)
              \o "\">"]

(***************************************************************************)
(* The style nodes to_html is called on: what from_ansi_node returns for   *)
(* the params below.                                                       *)
(***************************************************************************)
\* channel values with equal nibbles (0x00, 0x11, 0xff) and without (0x12)
ChannelCorners == {0, 17, 18, 255}

\* every value of one channel against the corners of the two others
ChannelTriples ==
    {<<v, x, y>> : v \in 0..255, x \in ChannelCorners, y \in ChannelCorners}
        \cup {<<x, v, y>> : v \in 0..255, x \in ChannelCorners, y \in ChannelCorners}
        \cup {<<x, y, v>> : v \in 0..255, x \in ChannelCorners, y \in ChannelCorners}

\* one true-colour foreground
TrueColorParams == {<<<<38, 2, t[1], t[2], t[3]>>>> : t \in ChannelTriples}

\* one palette colour as foreground, background or underline colour
PaletteParams == {<<<<base, 5, P>>>> : base \in {38, 48, 58}, P \in 0..255}

\* one standard or bright colour as foreground or background
TableParams == {<<<<base + n>>>> : base \in {30, 40, 90, 100}, n \in 0..7}

\* attributes, then at most one foreground, then at most one background
AttributeParams ==
    {<<>>, <<<<7>>>>, <<<<7>>, <<1>>>>, <<<<73>>>>, <<<<2>>, <<3>>, <<74>>>>,
     <<<<4, 3>>, <<58, 5, 9>>>>, <<<<7>>, <<27>>>>}
ForegroundParams ==
    {<<>>, <<<<31>>>>, <<<<94>>>>, <<<<38, 5, 5>>>>, <<<<38, 5, 12>>>>, <<<<38, 5, 190>>>>,
     <<<<38, 5, 245>>>>, <<<<38, 2, 17, 34, 51>>>>, <<<<38, 2, 255, 0, 128>>>>}
BackgroundParams ==
    {<<>>, <<<<42>>>>, <<<<103>>>>, <<<<48, 5, 3>>>>, <<<<48, 5, 9>>>>, <<<<48, 5, 16>>>>,
     <<<<48, 5, 232>>>>, <<<<48, 2, 0, 0, 0>>>>, <<<<48, 2, 1, 2, 3>>>>}

RenderParams ==
    TrueColorParams \cup PaletteParams \cup TableParams
        \cup {a \o f \o b : a \in AttributeParams, f \in ForegroundParams,
                            b \in BackgroundParams}

InitHtml ==
    /\ self_node \in {from_ansi_node(params) : params \in RenderParams}
    /\ called_on = self_node /\ tag_html = "" /\ html_calls = 0
    /\ InitSgrIdle /\ InitOptIdle /\ InitLexIdle /\ InitConvIdle /\ InitMainIdle

\* one call of to_html on self_node
ToHtml ==
    /\ html_calls < MaxCalls
    /\ called_on' = self_node
    /\ self_node' = to_html(self_node).self
    /\ tag_html' = to_html(self_node).html
    /\ html_calls' = html_calls + 1
    /\ UNCHANGED <<sgrVars, optVars, lexVars, convVars, mainVars>>

NextHtml == ToHtml

SpecHtml == InitHtml /\ [][NextHtml]_vars

(***************************************************************************)
(* Properties of to_html and the hex writers.                              *)
(***************************************************************************)
\* what to_html writes before the colour declarations of a node
StyleHead(s) ==
    LET bare == to_html([s EXCEPT !.foreground = NoColor, !.background = NoColor]).html
    IN  SubSeq(bare, 1, Len(bare) - Len("\">"))

\* C23: when reverse is set, to_html writes the background colour in the
\* "color:" declaration and the foreground colour in the "background:"
\* declaration; when reverse is not set, the foreground goes to "color:" and
\* the background to "background:".  An unset side gives no declaration.
C23_ReverseSwapsDeclarations ==
    html_calls >= 1 =>
        LET written(property, color) ==
                IF color = NoColor THEN "" ELSE property \o append_color(color) \o ";"
            as_color == IF called_on.reverse THEN called_on.background
                        ELSE called_on.foreground
            as_background == IF called_on.reverse THEN called_on.foreground
                             ELSE called_on.background
        IN  tag_html = StyleHead(called_on) \o written("color:", as_color)
                           \o written("background:", as_background) \o "\">"

\* to_html has been called on a node with reverse set, red foreground and
\* green background
C23_Witness ==
    /\ html_calls = 1 /\ called_on.reverse
    /\ called_on.foreground = Standard(1) /\ called_on.background = Standard(2)
    /\ tag_html = "<span style=\"color:#00cd00;background:#cd0000;\">"

\* the table colour a palette index below 16 stands for
TableColor(index) == IF index < 8 THEN Standard(index) ELSE Bright(index - 8)

\* C24: for every palette index i in 0..7 the hex written for Palette(i) is
\* the hex written for Standard(i), and for every i in 8..15 it is the hex
\* written for Bright(i-8): the node renders as the node with the table
\* colour in its place, as foreground, background or underline colour.
C24_PaletteRedirectsToTables ==
    html_calls >= 1 =>
        \A index \in 0..15 :
            /\ append_color(Palette(index)) = append_color(TableColor(index))
            /\ called_on.foreground = Palette(index)
                  => tag_html = to_html([called_on EXCEPT !.foreground = TableColor(index)]).html
            /\ called_on.background = Palette(index)
                  => tag_html = to_html([called_on EXCEPT !.background = TableColor(index)]).html
            /\ called_on.underline_color = Palette(index)
                  => tag_html = to_html([called_on EXCEPT !.underline_color = TableColor(index)]).html

\* to_html has been called on a node whose foreground is Palette(12)
C24_Witness ==
    /\ html_calls = 1 /\ called_on = [Default EXCEPT !.foreground = Palette(12)]
    /\ tag_html = "<span style=\"color:#5c5cff;\">"

\* the channels of the claim, in exact arithmetic
ExactChannels(index) ==
    IF index <= 231
    THEN <<((index - 16) \div 36) * 51, (((index - 16) \div 6) % 6) * 51,
           ((index - 16) % 6) * 51>>
    ELSE <<8 + (index - 232) * 10, 8 + (index - 232) * 10, 8 + (index - 232) * 10>>

\* C25: for every palette index in 16..231 the channels append_color
\* computes are ((index-16)/36)*51, ((index-16)/6 mod 6)*51 and
\* ((index-16) mod 6)*51, for every index in 232..255 all three channels are
\* 8+(index-232)*10, and every channel lies in 0..255: the 8-bit arithmetic
\* never overflows.
C25_PaletteChannels ==
    \A index \in 16..255 :
        (html_calls >= 1 /\ called_on = [Default EXCEPT !.foreground = Palette(index)]) =>
            LET exact == ExactChannels(index)
                ch == IF index <= 231 THEN CubeChannels(index) ELSE GrayChannels(index)
            IN  /\ ch = exact
                /\ \A k \in 1..3 : exact[k] \in 0..255
                /\ tag_html = "<span style=\"color:"
                                 \o push_hex_rgb(exact[1], exact[2], exact[3]) \o ";\">"

\* to_html has been called on a node whose foreground is Palette(190)
C25_Witness ==
    /\ html_calls = 1 /\ called_on = [Default EXCEPT !.foreground = Palette(190)]
    /\ tag_html = "<span style=\"color:#cf0;\">"

\* the lowercase hex digits and their values
LowerHexDigits ==
    {"0", "1", "2", "3", "4", "5", "6", "7", "8", "9", "a", "b", "c", "d", "e", "f"}
DigitValue(ch) ==
    CASE ch = "0" -> 0 [] ch = "1" -> 1 [] ch = "2" -> 2 [] ch = "3" -> 3
      [] ch = "4" -> 4 [] ch = "5" -> 5 [] ch = "6" -> 6 [] ch = "7" -> 7
      [] ch = "8" -> 8 [] ch = "9" -> 9 [] ch = "a" -> 10 [] ch = "b" -> 11
      [] ch = "c" -> 12 [] ch = "d" -> 13 [] ch = "e" -> 14 [] OTHER -> 15

\* the channels a written hex colour (#rgb or #rrggbb) expands to
Expanded(hex) ==
    LET d(k) == DigitValue(SubSeq(hex, k, k)) IN
    IF Len(hex) = 4
    THEN <<17 * d(2), 17 * d(3), 17 * d(4)>>
    ELSE <<16 * d(2) + d(3), 16 * d(4) + d(5), 16 * d(6) + d(7)>>

\* C26: for every r, g, b in 0..255 push_hex_rgb writes '#' and one hex digit
\* per channel exactly when each channel's high nibble equals its low
\* nibble, and otherwise '#' and two lowercase hex digits per channel; in
\* both cases the written value expands to exactly (r, g, b).
C26_HexShorthand ==
    (html_calls >= 1 /\ called_on.foreground.kind = "Rgb"
       /\ called_on = [Default EXCEPT !.foreground = called_on.foreground]) =>
        LET r == called_on.foreground.a
            g == called_on.foreground.b
            b == called_on.foreground.c
            head == "<span style=\"color:"
            hex == SubSeq(tag_html, Len(head) + 1, Len(tag_html) - Len(";\">"))
            short == \A v \in {r, g, b} : v \div 16 = v % 16
        IN  /\ tag_html = head \o hex \o ";\">"
            /\ hex = push_hex_rgb(r, g, b)
            /\ SubSeq(hex, 1, 1) = "#"
            /\ Len(hex) = IF short THEN 4 ELSE 7
            /\ \A k \in 2..Len(hex) : SubSeq(hex, k, k) \in LowerHexDigits
            /\ Expanded(hex) = <<r, g, b>>

\* to_html has been called on a node whose foreground is Rgb(17, 34, 51)
C26_Witness ==
    /\ html_calls = 1 /\ called_on = [Default EXCEPT !.foreground = Rgb(17, 34, 51)]
    /\ tag_html = "<span style=\"color:#123;\">"

(***************************************************************************)
(* The buffers parse_to_nodes is run on, and its specification.            *)
(***************************************************************************)
\* the pieces the general buffers are made of: 'a', the whitespace controls,
\* BEL, ESC, the CSI and OSC introducers, 'm', '1', ';', U+00FC, its lead
\* byte alone, and the invalid byte 0xFF
LexPieces ==
    {<<97>>, <<TAB>>, <<LF>>, <<CR>>, <<BEL>>, <<ESC>>, <<ESC, 91>>, <<ESC, 93>>,
     <<109>>, <<49>>, <<59>>, <<195, 188>>, <<195>>, <<255>>}

RECURSIVE Decimal(_)
Decimal(n) == IF n < 10 THEN <<48 + n>> ELSE Append(Decimal(n \div 10), 48 + (n % 10))

\* ESC [ 38|48 sep 5 sep P m, with sep ';' or ':'
ExtendedColorBuffer(base, sep, P) ==
    <<ESC, 91>> \o Decimal(base) \o <<sep, 53, sep>> \o Decimal(P) \o <<109>>

ExtendedColorBuffers ==
    {ExtendedColorBuffer(base, sep, P) : base \in {38, 48}, sep \in {59, 58}, P \in 0..255}

\* a CSI parameter as written: absent (<<>>) or one number
ParamTexts == {<<>>, <<2>>, <<4>>, <<38>>}

\* the bytes of the parameters vals, vals[k + 1] joined to vals[k] by seps[k]
RECURSIVE ParamBytes(_, _)
ParamBytes(vals, seps) ==
    (IF Head(vals) = <<>> THEN <<>> ELSE Decimal(Head(vals)[1]))
        \o (IF Len(vals) = 1 THEN <<>>
            ELSE <<Head(seps)>> \o ParamBytes(Tail(vals), Tail(seps)))

\* ESC [ parameters m
GroupedBuffer(vals, seps) == <<ESC, 91>> \o ParamBytes(vals, seps) \o <<109>>

GroupedBuffers ==
    UNION {{GroupedBuffer(vals, seps) : vals \in [1..n -> ParamTexts],
                                        seps \in [1..(n - 1) -> {59, 58}]} :
           n \in 1..MaxValues}

\* an OSC parameter: a byte string
OscParamTexts == {<<>>, <<49>>, <<97, 255>>}

RECURSIVE OscBytes(_)
OscBytes(ps) ==
    Head(ps) \o (IF Len(ps) = 1 THEN <<>> ELSE <<59>> \o OscBytes(Tail(ps)))

\* ESC ] parameters, ended by BEL or by ESC \
OscBuffer(ps, terminator) == <<ESC, 93>> \o OscBytes(ps) \o terminator

OscBuffers ==
    {OscBuffer(ps, terminator) : ps \in ListsUpTo(OscParamTexts, MaxOscParams),
                                 terminator \in {<<BEL>>, <<ESC, 92>>}}

LexInputs ==
    {Flatten(pieces) : pieces \in ListsUpTo(LexPieces, MaxPieces)} \cup {<<>>}
        \cup ExtendedColorBuffers \cup GroupedBuffers \cup OscBuffers

InitLex ==
    /\ input \in LexInputs
    /\ input_to_parse = <<>> /\ pos = 0
    /\ vte = NewParser /\ nodes = <<>> /\ current_text = <<>> /\ pcL = "start"
    /\ InitSgrIdle /\ InitOptIdle /\ InitConvIdle /\ InitHtmlIdle /\ InitMainIdle

SpecLex == InitLex /\ [][NextLex]_vars

\* C36: to_html does not change the style record it is called on: a
\* second call on the same record returns the same string as the first,
\* also for a record with reverse set and different foreground and
\* background.
C36_ToHtmlKeepsRecord ==
    html_calls >= 1 =>
        /\ self_node = called_on
        /\ to_html(self_node).html = tag_html

(***************************************************************************)
(* Properties of parse_to_nodes.                                           *)
(***************************************************************************)
\* the UTF-8 bytes of a char
Utf8(c) ==
    CASE c < 128 -> <<c>>
      [] c < 2048 -> <<192 + (c \div 64), 128 + (c % 64)>>
      [] OTHER -> <<224 + (c \div 4096), 128 + ((c \div 64) % 64), 128 + (c % 64)>>

RECURSIVE Utf8All(_)
Utf8All(chars) == IF chars = <<>> THEN <<>> ELSE Utf8(Head(chars)) \o Utf8All(Tail(chars))

\* the bytes of all Text nodes, in order
RECURSIVE TextBytes(_)
TextBytes(ns) ==
    IF ns = <<>> THEN <<>>
    ELSE (IF Head(ns).kind = "Text" THEN Utf8All(Head(ns).text) ELSE <<>>)
         \o TextBytes(Tail(ns))

\* the bytes left of a buffer when every CSI, OSC and ESC sequence and every
\* control byte but newline, carriage return and tab is removed; mode is
\* where the scan stands: in text, after ESC, inside a CSI, inside an OSC
RECURSIVE Stripped(_, _, _)
Stripped(bytes, k, mode) ==
    IF k > Len(bytes) THEN <<>>
    ELSE LET byte == bytes[k]
             rest(m) == Stripped(bytes, k + 1, m)
             kept == IF byte \in {LF, CR, TAB} THEN <<byte>> ELSE <<>>
         IN  CASE mode = "osc" ->
                    IF byte = BEL THEN rest("text")
                    ELSE IF byte = ESC THEN rest("esc") ELSE rest("osc")
               [] byte = ESC -> rest("esc")
               [] byte < 32 \/ byte = 127 -> kept \o rest(mode)
               [] mode = "text" -> <<byte>> \o rest("text")
               [] mode = "esc" ->
                    IF byte = 91 THEN rest("csi")
                    ELSE IF byte = 93 THEN rest("osc")
                    ELSE IF byte \in 32..47 THEN rest("esc") ELSE rest("text")
               [] OTHER ->
                    IF byte \in 64..126 THEN rest("text") ELSE rest("csi")

\* C1: for every input buffer, the Text nodes parse_to_nodes returns,
\* concatenated in order, are exactly the CRLF-normalized input with every
\* CSI, OSC and ESC sequence and every standalone control byte removed.
C1_TextIsStrippedInput ==
    pcL = "done" => TextBytes(nodes) = Stripped(normalize_crlf(input), 1, "text")

\* the SGR state of the only node of a lexed buffer
ResolvedNode == from_ansi_node(nodes[1].params)

\* C3: for every P in 0..255 the semicolon form ESC [ 38 ; 5 ; P m lexes to
\* one Csi node whose params resolve, from the default state, to foreground
\* Palette(P) with every other attribute at its default; likewise 48;5;P
\* and the background.
C3_SemicolonPaletteResolves ==
    \A P \in 0..255 :
        /\ (pcL = "done" /\ input = ExtendedColorBuffer(38, 59, P))
              => /\ Len(nodes) = 1 /\ nodes[1].kind = "Csi"
                 /\ ResolvedNode = [Default EXCEPT !.foreground = Palette(P)]
        /\ (pcL = "done" /\ input = ExtendedColorBuffer(48, 59, P))
              => /\ Len(nodes) = 1 /\ nodes[1].kind = "Csi"
                 /\ ResolvedNode = [Default EXCEPT !.background = Palette(P)]

\* a buffer with every CR LF pair replaced by LF, taken from its end
RECURSIVE CrlfReplaced(_)
CrlfReplaced(bytes) ==
    LET n == Len(bytes) IN
    IF n = 0 THEN <<>>
    ELSE IF n >= 2 /\ bytes[n - 1] = CR /\ bytes[n] = LF
         THEN Append(CrlfReplaced(SubSeq(bytes, 1, n - 2)), LF)
         ELSE Append(CrlfReplaced(SubSeq(bytes, 1, n - 1)), bytes[n])

\* printable ASCII and the three whitespace controls only
PlainText(bytes) ==
    \A k \in 1..Len(bytes) : bytes[k] \in (32..126) \cup {TAB, LF, CR}

\* the nodes of a buffer of plain text
PlainNodes(bytes) == IF bytes = <<>> THEN <<>> ELSE <<TextNode(CrlfReplaced(bytes))>>

\* C16: parse_to_nodes replaces every CR LF pair of the input by one LF
\* before parsing, and a CR not directly followed by LF stays a CR inside
\* the text content.
C16_CrlfNormalized ==
    /\ pcL \in {"advance", "done"} => input_to_parse = CrlfReplaced(input)
    /\ (pcL = "done" /\ PlainText(input)) => nodes = PlainNodes(input)

\* a buffer with a CR LF pair and a lone CR has been parsed
C16_Witness ==
    /\ pcL = "done" /\ input = <<CR, LF, CR>>
    /\ nodes = <<TextNode(<<LF, CR>>)>>

\* the parameter groups that vals joined by seps stand for: ':' adds a value
\* to the open group, ';' opens a group; an absent value is 0
RECURSIVE Grouped(_, _, _)
Grouped(vals, seps, groups) ==
    IF vals = <<>> THEN groups
    ELSE LET value == IF Head(vals) = <<>> THEN 0 ELSE Head(vals)[1]
             n == Len(groups)
         IN  IF n > 0 /\ Head(seps) = 58
             THEN Grouped(Tail(vals), Tail(seps),
                          [groups EXCEPT ![n] = Append(groups[n], value)])
             ELSE Grouped(Tail(vals), Tail(seps), Append(groups, <<value>>))

\* the groups of vals[1] followed by the others with their separators
GroupsOf(vals, seps) == Grouped(vals, <<59>> \o seps, <<>>)

\* C17: in a Csi node values joined by ':' form one parameter group in
\* input order and values separated by ';' form separate groups in input
\* order: ESC[4:2m gives [[4,2]], ESC[38;5;5m gives [[38],[5],[5]].
C17_SubParameterGrouping ==
    (pcL = "done" /\ Len(input) >= 3 /\ input[1] = ESC /\ input[2] = 91
       /\ \A k \in 3..(Len(input) - 1) : input[k] \in 48..59) =>
        /\ \A n \in 1..MaxValues : \A vals \in [1..n -> ParamTexts] :
           \A seps \in [1..(n - 1) -> {59, 58}] :
              input = GroupedBuffer(vals, seps)
                 => nodes = <<CsiNode(GroupsOf(vals, seps), <<>>, 109)>>
        /\ \A base \in {38, 48} : \A P \in 0..255 :
              /\ input = ExtendedColorBuffer(base, 59, P)
                    => nodes = <<CsiNode(<<<<base>>, <<5>>, <<P>>>>, <<>>, 109)>>
              /\ input = ExtendedColorBuffer(base, 58, P)
                    => nodes = <<CsiNode(<<<<base, 5, P>>>>, <<>>, 109)>>

\* ESC[4:2m has been parsed into one group of two values
C17_Witness ==
    /\ pcL = "done" /\ input = <<ESC, 91, 52, 58, 50, 109>>
    /\ nodes = <<CsiNode(<<<<4, 2>>>>, <<>>, 109)>>

\* an escape sequence that has not reached its final byte: ESC alone, ESC [
\* with parameter bytes only, or ESC ] with printable bytes only
Unfinished(bytes) ==
    /\ bytes # <<>> /\ bytes[1] = ESC
    /\ \/ Len(bytes) = 1
       \/ bytes[2] = 91 /\ \A k \in 3..Len(bytes) : bytes[k] \in (48..59)
       \/ bytes[2] = 93 /\ \A k \in 3..Len(bytes) : bytes[k] \in (32..126)

\* the index of the last ESC of a buffer, 0 if it has none
LastEsc(bytes) ==
    IF \E k \in 1..Len(bytes) : bytes[k] = ESC
    THEN CHOOSE k \in 1..Len(bytes) :
            bytes[k] = ESC /\ \A x \in (k + 1)..Len(bytes) : bytes[x] # ESC
    ELSE 0

\* C18: if the input ends inside an escape sequence that has not reached its
\* final byte, no node is emitted for it and every node completed before it
\* is returned, the pending text run included: plain text, or ESC [ m and
\* plain text, followed by an unfinished sequence gives the nodes of what
\* precedes the sequence.
C18_UnfinishedSequenceDropped ==
    (pcL = "done" /\ LastEsc(input) > 0
       /\ Unfinished(SubSeq(input, LastEsc(input), Len(input)))) =>
        LET before == SubSeq(input, 1, LastEsc(input) - 1) IN
        /\ PlainText(before) => nodes = PlainNodes(before)
        /\ (Len(before) >= 3 /\ SubSeq(before, 1, 3) = <<ESC, 91, 109>>
              /\ PlainText(SubSeq(before, 4, Len(before))))
             => nodes = <<CsiNode(<<<<0>>>>, <<>>, 109)>>
                           \o PlainNodes(SubSeq(before, 4, Len(before)))

\* text followed by an unfinished CSI has been parsed: only the text is there
C18_Witness ==
    /\ pcL = "done" /\ input = <<97, ESC, 91, 49>>
    /\ vte.state = "CsiParam"
    /\ nodes = <<TextNode(<<97>>)>>

\* C19: an OSC ended by BEL yields one Osc node with bell_terminated true;
\* an OSC ended by ESC \ yields an Osc node with bell_terminated false
\* directly followed by an Esc node with byte 0x5C and no intermediates; in
\* both cases the ';'-separated parameters are kept in order as byte strings.
C19_OscTermination ==
    (pcL = "done" /\ Len(input) >= 3 /\ input[1] = ESC /\ input[2] = 93) =>
        \A ps \in ListsUpTo(OscParamTexts, MaxOscParams) :
            /\ input = OscBuffer(ps, <<BEL>>) => nodes = <<OscNode(ps, TRUE)>>
            /\ input = OscBuffer(ps, <<ESC, 92>>)
                  => nodes = <<OscNode(ps, FALSE), EscNode(<<>>, 92)>>

\* an OSC of two parameters, one of them not valid UTF-8, ended by BEL
C19_Witness ==
    /\ pcL = "done" /\ input = <<ESC, 93, 49, 59, 97, 255, BEL>>
    /\ nodes = <<OscNode(<<<<49>>, <<97, 255>>>>, TRUE)>>

\* the nodes of a buffer of plain text and BEL bytes: the text runs between
\* the BEL bytes, and a ControlChar node for every BEL
RECURSIVE SplitAtBel(_, _)
SplitAtBel(bytes, run) ==
    IF bytes = <<>> THEN (IF run = <<>> THEN <<>> ELSE <<TextNode(run)>>)
    ELSE IF Head(bytes) = BEL
         THEN (IF run = <<>> THEN <<>> ELSE <<TextNode(run)>>)
                  \o <<ControlCharNode(BEL)>> \o SplitAtBel(Tail(bytes), <<>>)
         ELSE SplitAtBel(Tail(bytes), Append(run, Head(bytes)))

\* C20: newline, carriage return and tab are appended to the current text
\* run and give no node of their own; any other control byte first flushes
\* the text run, if it is not empty, as a Text node and is then emitted as a
\* ControlChar node carrying that byte.
C20_ControlBytes ==
    /\ \A k \in 1..Len(nodes) :
          /\ nodes[k].kind = "ControlChar" => nodes[k].code \notin {LF, CR, TAB}
          /\ nodes[k].kind = "Text" => nodes[k].text # <<>>
    /\ (pcL = "done" /\ \A k \in 1..Len(input) : input[k] = BEL \/ PlainText(<<input[k]>>))
          => nodes = SplitAtBel(CrlfReplaced(input), <<>>)

\* text with a tab, then BEL, has been parsed: the tab is in the text run,
\* BEL is a node of its own
C20_Witness ==
    /\ pcL = "done" /\ input = <<97, TAB, BEL>>
    /\ nodes = <<TextNode(<<97, TAB>>), ControlCharNode(BEL)>>

\* the nodes of plain text, the sequence ESC [ m, plain text
AroundCsi(before, after) ==
    PlainNodes(before) \o <<CsiNode(<<<<0>>>>, <<>>, 109)>> \o PlainNodes(after)

\* C21: in every node sequence parse_to_nodes returns no Text node is empty
\* and no two Text nodes are adjacent: the pending text run is flushed as one
\* Text node exactly when a Csi, Esc, Osc or ControlChar node is about to be
\* pushed and at end of input, and only when it is not empty, so a Text node
\* is a maximal run and stands before the non-text node that followed it in
\* the input.
C21_TextRunsMaximal ==
    /\ \A k \in 1..Len(nodes) : nodes[k].kind = "Text" => nodes[k].text # <<>>
    /\ \A k \in 1..(Len(nodes) - 1) :
          ~(nodes[k].kind = "Text" /\ nodes[k + 1].kind = "Text")
    /\ (pcL = "advance" /\ nodes # <<>>) => nodes[Len(nodes)].kind # "Text"
    /\ pcL = "done" => current_text = <<>>
    /\ pcL = "done" =>
          \A k \in 1..(Len(input) - 2) :
             ( /\ SubSeq(input, k, k + 2) = <<ESC, 91, 109>>
               /\ PlainText(SubSeq(input, 1, k - 1))
               /\ PlainText(SubSeq(input, k + 3, Len(input))) )
             => nodes = AroundCsi(SubSeq(input, 1, k - 1), SubSeq(input, k + 3, Len(input)))

\* text followed by ESC [ m has been parsed: the text run was flushed as one
\* Text node before the Csi node was pushed
C21_Witness ==
    /\ pcL = "done" /\ input = <<97, ESC, 91, 109>>
    /\ nodes = <<TextNode(<<97>>), CsiNode(<<<<0>>>>, <<>>, 109)>>

\* a CR directly before a CR LF pair
HasCrCrLf(bytes) ==
    \E k \in 1..(Len(bytes) - 2) :
        bytes[k] = CR /\ bytes[k + 1] = CR /\ bytes[k + 2] = LF

\* C37 as stated: the buffer produced by normalize_crlf contains no CR
\* directly followed by LF, for every input; normalize_crlf applied to its
\* own output returns it unchanged.
C37_NoCrlfLeft ==
    pcL \in {"advance", "done"} =>
        /\ ~needs_normalization(input_to_parse)
        /\ normalize_crlf(input_to_parse) = input_to_parse

\* C37, amended: normalize_crlf makes one pass, so its output contains a
\* CR directly followed by LF exactly when the input has a CR directly
\* before a CR LF pair; for every other input the output has no CR LF and
\* normalize_crlf applied to it returns it unchanged.
C37_OnePassOnly ==
    pcL \in {"advance", "done"} =>
        LET out == normalize_crlf(input) IN
        /\ needs_normalization(input) => input_to_parse = out
        /\ needs_normalization(out) <=> HasCrCrLf(input)
        /\ ~HasCrCrLf(input) => normalize_crlf(out) = out

\* a buffer with a CR before a CR LF pair has been normalized and parsed,
\* and what was parsed still has a CR LF in it
C37_Witness ==
    /\ pcL = "done" /\ HasCrCrLf(input)
    /\ needs_normalization(input_to_parse)
    /\ Len(input_to_parse) = Len(input) - 1

====
